---- MODULE Spec2Model ----
(***************************************************************************)
(* Model of BacktestEngine.run (src/src/engine.py): the next-bar-fill      *)
(* simulation loop, the position / equity ledger and the forced close.     *)
(*                                                                         *)
(* Amounts (prices, quantities, equity, commissions) are exact rationals   *)
(* <<num, den>> in lowest terms with den > 0.  The rows of the input       *)
(* DataFrame are read by the loop strictly in order, one row per           *)
(* iteration, and no row is read again once the loop has moved on (the     *)
(* forced close reads the last row).  The model therefore draws row i when *)
(* iteration i reads it (the open in the execution step, the close in the  *)
(* mark-to-market step, the four signal flags in the signal step) and      *)
(* keeps the current row in `bar`.  The DataFrame index is strictly        *)
(* increasing, so the timestamp of a bar is represented by its 1-based     *)
(* position in the series.                                                 *)
(*                                                                         *)
(* The engine object holds only its configuration and is used for several  *)
(* runs (src/src/optimizer.py): Rerun is the next call of run() on the     *)
(* same engine.  `ref` is the ledger of the same run on the same inputs    *)
(* with commission_pct = 0; it is the second run of the claims that        *)
(* compare two runs.                                                       *)
(*                                                                         *)
(* The functions around the engine are modelled as calls, `fn` applied to  *)
(* `arg` with the result in `out`: calculate_metrics (src/src/metrics.py)  *)
(* and validate_ohlcv (src/src/data_loader.py) under LibSpec, the filter   *)
(* and ranking of run_optimization and generate_variants                   *)
(* (src/src/optimizer.py) under OptSpec, _compute_chunks and               *)
(* fetch_historical (src/src/fyers_data.py), whose loops run step by step  *)
(* on the locals in `frame`, under FetchSpec.                              *)
(* IEEE infinities are <<1, 0>> and <<-1, 0>>, NaN is <<0, 0>>.            *)
(***************************************************************************)
EXTENDS Integers, Sequences, FiniteSets, TLC

\* ------------------------------------------------------------------------
\* Bounds of the model
\* ------------------------------------------------------------------------
MaxBars == 4

\* ------------------------------------------------------------------------
\* Exact rational arithmetic
\* ------------------------------------------------------------------------
Abs(x) == IF x < 0 THEN -x ELSE x

RECURSIVE GCD(_, _)
GCD(a, b) == IF b = 0 THEN a ELSE GCD(b, a % b)

Norm(num, den) ==
    LET s == IF den < 0 THEN -1 ELSE 1
        g == GCD(Abs(num), Abs(den))
    IN  <<(s * num) \div g, (s * den) \div g>>

R(k) == <<k, 1>>
Zero == R(0)
RAdd(a, b) == Norm(a[1] * b[2] + b[1] * a[2], a[2] * b[2])
RSub(a, b) == Norm(a[1] * b[2] - b[1] * a[2], a[2] * b[2])
RMul(a, b) == Norm(a[1] * b[1], a[2] * b[2])
RDiv(a, b) == Norm(a[1] * b[2], a[2] * b[1])
RAbs(a) == <<Abs(a[1]), a[2]>>
RNeg(a) == <<-a[1], a[2]>>
RLt(a, b) == a[1] * b[2] < b[1] * a[2]
RGt(a, b) == RLt(b, a)
RLe(a, b) == ~RLt(b, a)

\* np.nan, the placeholder of equity_values; also stands for a local that
\* has not been assigned yet.
NaN == <<0, 0>>

RECURSIVE RSum(_)
RSum(s) == IF s = <<>> THEN Zero ELSE RAdd(Head(s), RSum(Tail(s)))

\* ------------------------------------------------------------------------
\* Inputs: configuration and market series
\* ------------------------------------------------------------------------
\* EngineConfig is a plain dataclass: any value can be given, also an
\* initial capital of 0.
InitialCapitals == {10000, 0}
CommissionPcts == {0, 1}
PositionSizePcts == {50, 100}
Prices == {2, 6}
BOOL == {TRUE, FALSE}

EngineConfig ==
    [initial_capital : InitialCapitals,
     commission_pct : CommissionPcts,
     position_size_pct : PositionSizePcts]

SignalColumns ==
    [long_entry : BOOL, long_exit : BOOL, short_entry : BOOL, short_exit : BOOL]

\* The names of the four signal columns.
SignalColumnNames == {"long_entry", "long_exit", "short_entry", "short_exit"}

\* The signal columns the caller's df may have when run() is called: all of
\* them, none, or only the two long ones.
InputColumns == {SignalColumnNames, {}, {"long_entry", "long_exit"}}

\* A row of df of which nothing has been read yet.
NoBar ==
    [open |-> 0, close |-> 0, long_entry |-> FALSE, long_exit |-> FALSE,
     short_entry |-> FALSE, short_exit |-> FALSE]

None == "None"
NoTime == 0

Trade(dir, et, ep, xt, xp, q, p, c) ==
    [direction |-> dir, entry_time |-> et, entry_price |-> ep,
     exit_time |-> xt, exit_price |-> xp, qty |-> q, pnl |-> p,
     commission |-> c]

NoResult == [trades |-> <<>>, equity_curve |-> <<>>, final_equity |-> NaN]

VARIABLES
    cfg,             \* self.config
    n,               \* len(df)
    bar,             \* row i of df, as far as iteration i has read it
    i,               \* loop index: the (1-based) number of the current row
    pc,              \* position of run(): loop, mark, signal, ret, done
    equity,
    position,
    entry_price,
    entry_time,
    direction,
    trades,
    equity_values,
    pending_signal,
    qty,             \* local qty
    commission,      \* local commission
    pnl,             \* local pnl
    result,          \* the BacktestResult returned
    df_columns,      \* df.columns: the signal columns of the caller's df
    data_columns,    \* the signal columns the caller's df had when passed
    ref,             \* ledger of the same run with commission_pct = 0
    opened,          \* history: number of fills that opened a position
    flagged,         \* history: some signal flag was set on a row read
    fn,              \* the function called: run, or one of the functions
                     \* that are applied to an argument built by the caller
    arg,             \* the argument of that function
    out,             \* what it returned
    frame            \* the locals of that function while it loops

vars == <<cfg, n, bar, i, pc, equity, position, entry_price,
          entry_time, direction, trades, equity_values, pending_signal,
          qty, commission, pnl, result, df_columns, data_columns, ref,
          opened, flagged, fn, arg, out, frame>>

\* The call of a function other than run().
lib == <<fn, arg, out, frame>>

caller == <<df_columns, data_columns>>

ledger == <<equity, position, entry_price, entry_time, direction, trades,
            qty, commission, pnl>>

\* ------------------------------------------------------------------------
\* Arithmetic of the fills
\* ------------------------------------------------------------------------
\* qty = (equity * cfg.position_size_pct / 100.0) / fill_price
EntryQty(eq, fill_price) ==
    RDiv(RDiv(RMul(eq, R(cfg.position_size_pct)), R(100)), fill_price)

\* commission = qty * price * cfg.commission_pct / 100.0
LegCommission(q, price) ==
    RDiv(RMul(RMul(q, price), R(cfg.commission_pct)), R(100))

\* pnl = qty * (fill_price - entry_price)
LongPnl(q, price, ep) == RMul(q, RSub(price, ep))

\* Mutation of ShortPnl: the short PnL is computed with the long formula.
ShortPnlAsLong(q, price, ep) == RMul(q, RSub(price, ep))

\* pnl = qty * (entry_price - fill_price)
ShortPnl(q, price, ep) == RMul(q, RSub(ep, price))

\* ------------------------------------------------------------------------
\* Init: the state of run() after lines 53-78
\* ------------------------------------------------------------------------
\* The reference ledger at the start of a run.
RefInit ==
    [equity |-> R(cfg.initial_capital), position |-> Zero,
     entry_price |-> Zero, pending |-> None, ntrades |-> 0]

Init ==
    /\ cfg \in EngineConfig
    /\ n \in 0..MaxBars
    /\ data_columns \in InputColumns
    /\ df_columns = data_columns
    /\ ref = RefInit
    /\ flagged = FALSE
    /\ fn = "run"
    /\ arg = None
    /\ out = None
    /\ frame = None
    /\ bar = NoBar
    /\ i = 0
    /\ pc = "start"
    /\ equity = R(cfg.initial_capital)
    /\ position = Zero
    /\ entry_price = Zero
    /\ entry_time = NoTime
    /\ direction = None
    /\ trades = <<>>
    /\ equity_values = [k \in 1..n |-> NaN]
    /\ pending_signal = None
    /\ qty = NaN
    /\ commission = NaN
    /\ pnl = NaN
    /\ result = NoResult
    /\ opened = 0

\* ------------------------------------------------------------------------
\* Lines 65-68: ensure the signal columns exist with False default
\* ------------------------------------------------------------------------
\* for col in [...]: if col not in df.columns: df[col] = False
WithSignalColumns(cols) == cols \cup SignalColumnNames

\* Mutation of DefaultSignal: a created column is filled with True.
DefaultSignalTrue == TRUE

\* The value run() writes into a signal column it creates.
DefaultSignal == FALSE

EnsureSignalColumns ==
    /\ pc = "start"
    /\ df_columns' = WithSignalColumns(df_columns)
    /\ pc' = "loop"
    /\ UNCHANGED <<cfg, n, bar, i, ledger, equity_values, pending_signal,
                   result, data_columns, ref, opened, flagged>>
    /\ UNCHANGED lib

\* The rows of flags a df can hold: a column that was not given holds the
\* default on every row.
RowSignals ==
    {s \in SignalColumns :
        \A col \in SignalColumnNames \ data_columns : s[col] = DefaultSignal}

AnyFlag(s) == s.long_entry \/ s.long_exit \/ s.short_entry \/ s.short_exit

\* ------------------------------------------------------------------------
\* The loop body, lines 80-159
\* ------------------------------------------------------------------------
\* Mutation of times: two consecutive bars carry the same timestamp.
TimesOfPairs(k) == (k + 1) \div 2

\* times = df.index; times[k] is the timestamp of bar k
times(k) == k

\* Mutation of FillPrice: the pending signal is filled at the close of the
\* bar that raised it.
FillPriceAtSignalClose(prev, cur) == R(prev.close)

\* fill_price = opens[i]: prev is the row of the previous iteration (the one
\* whose signal is pending), cur the row of this iteration.
FillPrice(prev, cur) == R(cur.open)

\* Lines 84-139: execute the pending signal of the previous bar at bar k.
Fill(fill_price, k) ==
    IF pending_signal = None
    THEN UNCHANGED <<ledger, pending_signal>>
    ELSE
      /\ pending_signal' = None
      /\ IF pending_signal = "long_entry" /\ position = Zero THEN
            LET q == EntryQty(equity, fill_price)
                c == LegCommission(q, fill_price)
            IN  /\ qty' = q
                /\ commission' = c
                /\ equity' = RSub(equity, c)
                /\ position' = q
                /\ entry_price' = fill_price
                /\ entry_time' = times(k)
                /\ direction' = "long"
                /\ UNCHANGED <<trades, pnl>>
         ELSE IF pending_signal = "short_entry" /\ position = Zero THEN
            LET q == EntryQty(equity, fill_price)
                c == LegCommission(q, fill_price)
            IN  /\ qty' = q
                /\ commission' = c
                /\ equity' = RSub(equity, c)
                /\ position' = RNeg(q)
                /\ entry_price' = fill_price
                /\ entry_time' = times(k)
                /\ direction' = "short"
                /\ UNCHANGED <<trades, pnl>>
         ELSE IF pending_signal = "long_exit" /\ RGt(position, Zero) THEN
            LET q == RAbs(position)
                c == LegCommission(q, fill_price)
                p == LongPnl(q, fill_price, entry_price)
            IN  /\ qty' = q
                /\ commission' = c
                /\ pnl' = p
                /\ equity' = RAdd(equity, RSub(p, c))
                /\ trades' = Append(trades,
                       Trade("long", entry_time, entry_price, times(k),
                             fill_price, q, p, c))
                /\ position' = Zero
                /\ direction' = None
                /\ UNCHANGED <<entry_price, entry_time>>
         ELSE IF pending_signal = "short_exit" /\ RLt(position, Zero) THEN
            LET q == RAbs(position)
                c == LegCommission(q, fill_price)
                p == ShortPnl(q, fill_price, entry_price)
            IN  /\ qty' = q
                /\ commission' = c
                /\ pnl' = p
                /\ equity' = RAdd(equity, RSub(p, c))
                /\ trades' = Append(trades,
                       Trade("short", entry_time, entry_price, times(k),
                             fill_price, q, p, c))
                /\ position' = Zero
                /\ direction' = None
                /\ UNCHANGED <<entry_price, entry_time>>
         ELSE UNCHANGED ledger

\* Lines 84-139 with cfg.commission_pct = 0, on the reference ledger r.
RefFill(r, fill_price) ==
    IF r.pending = None THEN r
    ELSE
      LET c == [r EXCEPT !.pending = None] IN
      IF r.pending = "long_entry" /\ r.position = Zero THEN
          [c EXCEPT !.position = EntryQty(r.equity, fill_price),
                    !.entry_price = fill_price]
      ELSE IF r.pending = "short_entry" /\ r.position = Zero THEN
          [c EXCEPT !.position = RNeg(EntryQty(r.equity, fill_price)),
                    !.entry_price = fill_price]
      ELSE IF r.pending = "long_exit" /\ RGt(r.position, Zero) THEN
          [c EXCEPT !.equity = RAdd(r.equity,
                        LongPnl(RAbs(r.position), fill_price, r.entry_price)),
                    !.position = Zero,
                    !.ntrades = r.ntrades + 1]
      ELSE IF r.pending = "short_exit" /\ RLt(r.position, Zero) THEN
          [c EXCEPT !.equity = RAdd(r.equity,
                        ShortPnl(RAbs(r.position), fill_price, r.entry_price)),
                    !.position = Zero,
                    !.ntrades = r.ntrades + 1]
      ELSE c

\* Lines 80-139: the loop header takes the next row and the pending signal
\* of the previous row is executed at its open.
ExecutePending ==
    /\ pc = "loop"
    /\ i < n
    /\ i' = i + 1
    /\ \E o \in Prices :
          /\ bar' = [NoBar EXCEPT !.open = o]
          /\ Fill(FillPrice(bar, bar'), i')
          /\ ref' = RefFill(ref, FillPrice(bar, bar'))
    /\ opened' = IF position = Zero /\ position' # Zero
                 THEN opened + 1 ELSE opened
    /\ pc' = "mark"
    /\ UNCHANGED <<cfg, n, equity_values, result, caller, flagged>>
    /\ UNCHANGED lib

\* Lines 141-149: the equity-curve value of bar i.
\* Mutation of MarkToMarket: a short position is valued like a long one.
MarkToMarketAsLong(eq, pos, ep, close) ==
    RAdd(eq, RMul(RAbs(pos), RSub(close, ep)))

MarkToMarket(eq, pos, ep, close) ==
    IF RGt(pos, Zero) THEN RAdd(eq, RMul(pos, RSub(close, ep)))
    ELSE IF RLt(pos, Zero) THEN RAdd(eq, RMul(RAbs(pos), RSub(ep, close)))
    ELSE eq

\* Mutation of MarkEquity: the close read is written back over the bar's
\* open.
MarkEquityOverwritesOpen ==
    /\ pc = "mark"
    /\ \E c \in Prices :
          /\ bar' = [bar EXCEPT !.close = c, !.open = c]
          /\ equity_values' =
                [equity_values EXCEPT
                    ![i] = MarkToMarket(equity, position, entry_price, R(c))]
    /\ pc' = "signal"
    /\ UNCHANGED <<cfg, n, i, ledger, pending_signal, result, caller, ref,
                   opened, flagged>>
    /\ UNCHANGED lib

\* Mutation of MarkEquity: the mark-to-market value is also stored as the
\* realized equity.
MarkEquityRealizes ==
    /\ pc = "mark"
    /\ \E c \in Prices :
          /\ bar' = [bar EXCEPT !.close = c]
          /\ equity_values' =
                [equity_values EXCEPT
                    ![i] = MarkToMarket(equity, position, entry_price, R(c))]
          /\ equity' = MarkToMarket(equity, position, entry_price, R(c))
    /\ pc' = "signal"
    /\ UNCHANGED <<cfg, n, i, position, entry_price, entry_time, direction,
                   trades, qty, commission, pnl, pending_signal, result,
                   caller, ref, opened, flagged>>
    /\ UNCHANGED lib

\* Mutation of MarkEquity: the value of a bar is written only while a
\* position is open.
MarkEquitySkipsFlat ==
    /\ pc = "mark"
    /\ \E c \in Prices :
          /\ bar' = [bar EXCEPT !.close = c]
          /\ equity_values' =
                IF position = Zero THEN equity_values
                ELSE [equity_values EXCEPT
                    ![i] = MarkToMarket(equity, position, entry_price, R(c))]
    /\ pc' = "signal"
    /\ UNCHANGED <<cfg, n, i, ledger, pending_signal, result, caller, ref,
                   opened, flagged>>
    /\ UNCHANGED lib

MarkEquity ==
    /\ pc = "mark"
    /\ \E c \in Prices :
          /\ bar' = [bar EXCEPT !.close = c]
          /\ equity_values' =
                [equity_values EXCEPT
                    ![i] = MarkToMarket(equity, position, entry_price, R(c))]
    /\ pc' = "signal"
    /\ UNCHANGED <<cfg, n, i, ledger, pending_signal, result, caller, ref,
                   opened, flagged>>
    /\ UNCHANGED lib

\* Mutation of NextPending: the entry branches lack the `position == 0.0`
\* guard.
NextPendingUnguardedEntry(pos, s, pending) ==
    IF RGt(pos, Zero) /\ s.long_exit THEN "long_exit"
    ELSE IF RLt(pos, Zero) /\ s.short_exit THEN "short_exit"
    ELSE IF s.long_entry THEN "long_entry"
    ELSE IF s.short_entry THEN "short_entry"
    ELSE pending

\* Mutation of NextPending: the entry flags are tested before the exit
\* flags.
NextPendingEntryFirst(pos, s, pending) ==
    IF s.long_entry THEN "long_entry"
    ELSE IF s.short_entry THEN "short_entry"
    ELSE IF RGt(pos, Zero) /\ s.long_exit THEN "long_exit"
    ELSE IF RLt(pos, Zero) /\ s.short_exit THEN "short_exit"
    ELSE pending

\* Mutation of NextPending: the exit branches lack the test of the
\* position.
NextPendingExitWhileFlat(pos, s, pending) ==
    IF s.long_exit THEN "long_exit"
    ELSE IF s.short_exit THEN "short_exit"
    ELSE IF pos = Zero /\ s.long_entry THEN "long_entry"
    ELSE IF pos = Zero /\ s.short_entry THEN "short_entry"
    ELSE pending

\* Mutation of NextPending: an exit flag is honoured for an open position
\* of either direction.
NextPendingExitAnyDirection(pos, s, pending) ==
    IF pos # Zero /\ s.long_exit THEN "long_exit"
    ELSE IF pos # Zero /\ s.short_exit THEN "short_exit"
    ELSE IF pos = Zero /\ s.long_entry THEN "long_entry"
    ELSE IF pos = Zero /\ s.short_entry THEN "short_entry"
    ELSE pending

\* Lines 151-159: the signal recorded for next-bar execution.
NextPending(pos, s, pending) ==
    IF RGt(pos, Zero) /\ s.long_exit THEN "long_exit"
    ELSE IF RLt(pos, Zero) /\ s.short_exit THEN "short_exit"
    ELSE IF pos = Zero /\ s.long_entry THEN "long_entry"
    ELSE IF pos = Zero /\ s.short_entry THEN "short_entry"
    ELSE pending

\* Mutation of RecordSignal: an exit signal is filled on the bar that raises
\* it, at that bar's close, instead of being left pending.
RecordSignalFillsExit ==
    /\ pc = "signal"
    /\ \E s \in RowSignals :
          /\ flagged' = (flagged \/ AnyFlag(s))
          /\ ref' = [ref EXCEPT
                       !.pending = NextPending(ref.position, s, ref.pending)]
          /\ bar' = [bar EXCEPT !.long_entry = s.long_entry,
                                !.long_exit = s.long_exit,
                                !.short_entry = s.short_entry,
                                !.short_exit = s.short_exit]
          /\ IF (RGt(position, Zero) /\ s.long_exit)
                \/ (RLt(position, Zero) /\ s.short_exit)
             THEN LET q == RAbs(position)
                      c == LegCommission(q, R(bar.close))
                      p == IF RGt(position, Zero)
                           THEN LongPnl(q, R(bar.close), entry_price)
                           ELSE ShortPnl(q, R(bar.close), entry_price)
                      d == IF RGt(position, Zero) THEN "long" ELSE "short"
                  IN  /\ qty' = q
                      /\ commission' = c
                      /\ pnl' = p
                      /\ equity' = RAdd(equity, RSub(p, c))
                      /\ trades' = Append(trades,
                             Trade(d, entry_time, entry_price, times(i),
                                   R(bar.close), q, p, c))
                      /\ position' = Zero
                      /\ direction' = None
                      /\ UNCHANGED <<entry_price, entry_time, pending_signal>>
             ELSE /\ pending_signal' = NextPending(position, s, pending_signal)
                  /\ UNCHANGED ledger
    /\ pc' = "loop"
    /\ UNCHANGED <<cfg, n, i, equity_values, result, caller, opened>>
    /\ UNCHANGED lib

\* Mutation of RecordSignal: an entry signal seen while flat is filled on
\* the bar that raises it, at that bar's close, instead of being left
\* pending.
RecordSignalFillsEntry ==
    /\ pc = "signal"
    /\ \E s \in RowSignals :
          /\ flagged' = (flagged \/ AnyFlag(s))
          /\ ref' = [ref EXCEPT
                       !.pending = NextPending(ref.position, s, ref.pending)]
          /\ bar' = [bar EXCEPT !.long_entry = s.long_entry,
                                !.long_exit = s.long_exit,
                                !.short_entry = s.short_entry,
                                !.short_exit = s.short_exit]
          /\ IF position = Zero /\ (s.long_entry \/ s.short_entry)
             THEN LET q == EntryQty(equity, R(bar.close))
                      c == LegCommission(q, R(bar.close))
                  IN  /\ qty' = q
                      /\ commission' = c
                      /\ equity' = RSub(equity, c)
                      /\ position' = IF s.long_entry THEN q ELSE RNeg(q)
                      /\ entry_price' = R(bar.close)
                      /\ entry_time' = times(i)
                      /\ direction' = IF s.long_entry THEN "long" ELSE "short"
                      /\ UNCHANGED <<trades, pnl, pending_signal>>
             ELSE /\ pending_signal' = NextPending(position, s, pending_signal)
                  /\ UNCHANGED ledger
    /\ pc' = "loop"
    /\ UNCHANGED <<cfg, n, i, equity_values, result, caller, opened>>
    /\ UNCHANGED lib

RecordSignal ==
    /\ pc = "signal"
    /\ \E s \in RowSignals :
          /\ flagged' = (flagged \/ AnyFlag(s))
          /\ ref' = [ref EXCEPT
                       !.pending = NextPending(ref.position, s, ref.pending)]
          /\ bar' = [bar EXCEPT !.long_entry = s.long_entry,
                                !.long_exit = s.long_exit,
                                !.short_entry = s.short_entry,
                                !.short_exit = s.short_exit]
          /\ pending_signal' = NextPending(position, s, pending_signal)
    /\ pc' = "loop"
    /\ UNCHANGED <<cfg, n, i, ledger, equity_values, result, caller, opened>>
    /\ UNCHANGED lib

\* ------------------------------------------------------------------------
\* Lines 161-191: force-close the open position at the last bar's close
\* ------------------------------------------------------------------------
\* Mutation of HasOpenPosition: only long positions are force-closed.
HasLongPosition(pos) == RGt(pos, Zero)

\* Mutation of HasOpenPosition: the forced close is attempted whatever the
\* position is.
HasOpenPositionAlways(pos) == TRUE

\* if position != 0.0
HasOpenPosition(pos) == pos # Zero

\* Mutation of LastClose: the forced close uses the last bar's open.
LastOpen(b) == R(b.open)

\* last_close = closes[-1]; b is the last row of df
LastClose(b) == R(b.close)

\* Lines 161-191 with cfg.commission_pct = 0, on the reference ledger r.
RefForceClose(r, last_close) ==
    IF HasOpenPosition(r.position)
    THEN [r EXCEPT
            !.equity = RAdd(r.equity,
                IF RGt(r.position, Zero)
                THEN LongPnl(RAbs(r.position), last_close, r.entry_price)
                ELSE ShortPnl(RAbs(r.position), last_close, r.entry_price)),
            !.ntrades = r.ntrades + 1]
    ELSE r

\* Mutation of ForceClose: the last equity-curve entry is left at the
\* mark-to-market value of the last bar.
ForceCloseStaleCurve ==
    /\ pc = "loop"
    /\ i = n
    /\ ref' = RefForceClose(ref, LastClose(bar))
    /\ IF HasOpenPosition(position)
       THEN LET last_close == LastClose(bar)
                q == RAbs(position)
                c == LegCommission(q, last_close)
                p == IF RGt(position, Zero)
                     THEN LongPnl(q, last_close, entry_price)
                     ELSE ShortPnl(q, last_close, entry_price)
                d == IF RGt(position, Zero) THEN "long" ELSE "short"
            IN  /\ qty' = q
                /\ commission' = c
                /\ pnl' = p
                /\ trades' = Append(trades,
                       Trade(d, entry_time, entry_price, times(n),
                             last_close, q, p, c))
                /\ equity' = RAdd(equity, RSub(p, c))
                /\ equity_values' = equity_values
       ELSE UNCHANGED <<qty, commission, pnl, trades, equity, equity_values>>
    /\ pc' = "ret"
    /\ UNCHANGED <<cfg, n, bar, i, position, entry_price, entry_time,
                   direction, pending_signal, result, caller, opened,
                   flagged>>
    /\ UNCHANGED lib

ForceClose ==
    /\ pc = "loop"
    /\ i = n
    /\ ref' = RefForceClose(ref, LastClose(bar))
    /\ IF HasOpenPosition(position)
       THEN LET last_close == LastClose(bar)
                q == RAbs(position)
                c == LegCommission(q, last_close)
                p == IF RGt(position, Zero)
                     THEN LongPnl(q, last_close, entry_price)
                     ELSE ShortPnl(q, last_close, entry_price)
                d == IF RGt(position, Zero) THEN "long" ELSE "short"
            IN  /\ qty' = q
                /\ commission' = c
                /\ pnl' = p
                /\ trades' = Append(trades,
                       Trade(d, entry_time, entry_price, times(n),
                             last_close, q, p, c))
                /\ equity' = RAdd(equity, RSub(p, c))
                /\ equity_values' =
                      [equity_values EXCEPT ![n] = RAdd(equity, RSub(p, c))]
       ELSE UNCHANGED <<qty, commission, pnl, trades, equity, equity_values>>
    /\ pc' = "ret"
    /\ UNCHANGED <<cfg, n, bar, i, position, entry_price, entry_time,
                   direction, pending_signal, result, caller, opened,
                   flagged>>
    /\ UNCHANGED lib

\* Lines 193-200: build and return the BacktestResult.
Return ==
    /\ pc = "ret"
    /\ result' = [trades |-> trades, equity_curve |-> equity_values,
                  final_equity |-> equity]
    /\ pc' = "done"
    /\ UNCHANGED <<cfg, n, bar, i, ledger, equity_values, pending_signal,
                   caller, ref, opened, flagged>>
    /\ UNCHANGED lib

\* ------------------------------------------------------------------------
\* The next call of run() on the same engine (optimizer.py lines 61-73):
\* lines 53-64 and 78 initialise every local again; the df passed is the
\* one of the previous call or another one.
\* ------------------------------------------------------------------------
\* Mutation of Rerun: equity, position, entry price and pending action are
\* attributes kept by the engine between calls.
RerunKeepsLedger ==
    /\ pc = "done"
    /\ n' \in 0..MaxBars
    /\ \/ UNCHANGED <<df_columns, data_columns>>
       \/ /\ data_columns' \in InputColumns
          /\ df_columns' = data_columns'
    /\ entry_time' = NoTime
    /\ direction' = None
    /\ trades' = <<>>
    /\ equity_values' = [k \in 1..n' |-> NaN]
    /\ qty' = NaN
    /\ commission' = NaN
    /\ pnl' = NaN
    /\ result' = NoResult
    /\ ref' = RefInit
    /\ bar' = NoBar
    /\ i' = 0
    /\ opened' = 0
    /\ flagged' = FALSE
    /\ pc' = "start"
    /\ UNCHANGED <<cfg, equity, position, entry_price, pending_signal>>
    /\ UNCHANGED lib

Rerun ==
    /\ pc = "done"
    /\ n' \in 0..MaxBars
    /\ \/ UNCHANGED <<df_columns, data_columns>>
       \/ /\ data_columns' \in InputColumns
          /\ df_columns' = data_columns'
    /\ equity' = R(cfg.initial_capital)
    /\ position' = Zero
    /\ entry_price' = Zero
    /\ entry_time' = NoTime
    /\ direction' = None
    /\ trades' = <<>>
    /\ equity_values' = [k \in 1..n' |-> NaN]
    /\ pending_signal' = None
    /\ qty' = NaN
    /\ commission' = NaN
    /\ pnl' = NaN
    /\ result' = NoResult
    /\ ref' = RefInit
    /\ bar' = NoBar
    /\ i' = 0
    /\ opened' = 0
    /\ flagged' = FALSE
    /\ pc' = "start"
    /\ UNCHANGED cfg
    /\ UNCHANGED lib

Next ==
    \/ EnsureSignalColumns
    \/ ExecutePending
    \/ MarkEquity
    \/ RecordSignal
    \/ ForceClose
    \/ Return
    \/ Rerun

Spec == Init /\ [][Next]_vars

TypeOK ==
    /\ pc \in {"start", "loop", "mark", "signal", "ret", "done"}
    /\ pending_signal \in {None, "long_entry", "long_exit", "short_entry", "short_exit"}
    /\ i \in 0..n

\* ========================================================================
\* Functions applied to an argument built by the caller: calculate_metrics
\* (src/src/metrics.py), validate_ohlcv (src/src/data_loader.py) and the
\* filter and ranking of run_optimization (src/src/optimizer.py).  LibInit
\* draws the function and its argument, one action per function applies
\* it; run() is not executing in these behaviours.
\* ========================================================================
MaxTrades == 2

\* The locals of run(), none of which exists while run() is not called.
run_state == <<cfg, n, bar, i, equity, position, entry_price, entry_time,
               direction, trades, equity_values, pending_signal, qty,
               commission, pnl, result, df_columns, data_columns, ref,
               opened, flagged>>

NoRun ==
    /\ cfg = None
    /\ n = 0
    /\ bar = NoBar
    /\ i = 0
    /\ equity = NaN
    /\ position = NaN
    /\ entry_price = NaN
    /\ entry_time = NoTime
    /\ direction = None
    /\ trades = <<>>
    /\ equity_values = <<>>
    /\ pending_signal = None
    /\ qty = NaN
    /\ commission = NaN
    /\ pnl = NaN
    /\ result = NoResult
    /\ df_columns = {}
    /\ data_columns = {}
    /\ ref = None
    /\ opened = 0
    /\ flagged = FALSE

\* ------------------------------------------------------------------------
\* IEEE values beyond the rationals: float("inf") and its negation (NaN is
\* <<0, 0>>).  RLt compares them as IEEE does: every comparison with NaN
\* is false.
\* ------------------------------------------------------------------------
Inf == <<1, 0>>
NegInf == <<-1, 0>>
IsFinite(x) == x[2] # 0
Sign(x) == IF x[1] > 0 THEN 1 ELSE IF x[1] < 0 THEN -1 ELSE 0
Signed(k) == IF k > 0 THEN Inf ELSE IF k < 0 THEN NegInf ELSE NaN

\* numpy float64 division and multiplication: no exception, x / 0 is an
\* infinity or NaN.
FDiv(a, b) ==
    IF a = NaN \/ b = NaN THEN NaN
    ELSE IF ~IsFinite(a) THEN (IF IsFinite(b)
                               THEN Signed(Sign(a) * (IF b[1] < 0 THEN -1 ELSE 1))
                               ELSE NaN)
    ELSE IF ~IsFinite(b) THEN Zero
    ELSE IF b = Zero THEN Signed(Sign(a))
    ELSE RDiv(a, b)

FMul(a, b) ==
    IF a = NaN \/ b = NaN THEN NaN
    ELSE IF ~IsFinite(a) \/ ~IsFinite(b) THEN Signed(Sign(a) * Sign(b))
    ELSE RMul(a, b)

\* ------------------------------------------------------------------------
\* calculate_metrics, src/src/metrics.py lines 46-118
\* ------------------------------------------------------------------------
\* Values of an equity curve, results of trades (pnl, commission) and
\* initial capitals of the results passed to calculate_metrics.
CurveValues == {0, 1, 2, 4, 6}
TradeOutcomes == {<<2, 0>>, <<1, 1>>, <<-1, 0>>}
ResultCapitals == {2, 0}

\* The equity curves of results as run() returns them (lines 193-200):
\* a curve of zero bars, or one that starts at initial_capital (nothing
\* is pending on the first bar).
EquityCurves(c) ==
    {<<>>} \cup
    UNION {{<<R(c)>> \o rest : rest \in [1..k -> {R(v) : v \in CurveValues}]}
              : k \in 0..(MaxBars - 1)}

TradeLists ==
    UNION {[1..k -> {Trade("long", 1, R(1), 1, R(1), R(1), R(o[1]), R(o[2]))
                        : o \in TradeOutcomes}] : k \in 0..MaxTrades}

\* The results passed are results as run() returns them (lines 193-200)
\* on an engine of initial capital c: a result of zero bars has no trade
\* and final_equity = initial_capital; otherwise final_equity is the last
\* value of the curve.
ResultOfRun(ts, ev) == ev = <<>> => ts = <<>>

BacktestResult(c) ==
    {[trades |-> tv[1], equity_curve |-> tv[2],
      final_equity |-> IF tv[2] = <<>> THEN R(c) ELSE tv[2][Len(tv[2])],
      config |-> [initial_capital |-> c]]
        : tv \in {x \in TradeLists \X EquityCurves(c) :
                     ResultOfRun(x[1], x[2])}}

\* The substitute denominator of line 103 (1e-10 in the source).
Epsilon == <<1, 1000000>>

PerformanceMetrics(np, npp, mdd, mddp, tt, wt, lt, wr, pf, p2d) ==
    [error |-> None, net_profit |-> np, net_profit_pct |-> npp,
     max_drawdown |-> mdd, max_drawdown_pct |-> mddp, total_trades |-> tt,
     winning_trades |-> wt, losing_trades |-> lt, win_rate |-> wr,
     profit_factor |-> pf, profit_to_drawdown |-> p2d]

\* calculate_metrics left by an exception.
Raised(e) ==
    [error |-> e, net_profit |-> NaN, net_profit_pct |-> NaN,
     max_drawdown |-> NaN, max_drawdown_pct |-> NaN, total_trades |-> 0,
     winning_trades |-> 0, losing_trades |-> 0, win_rate |-> NaN,
     profit_factor |-> NaN, profit_to_drawdown |-> NaN]

\* equity.cummax()
CumMax(ev) ==
    [k \in 1..Len(ev) |->
        CHOOSE m \in {ev[j] : j \in 1..k} : \A j \in 1..k : ~RLt(m, ev[j])]

\* equity - running_max
DrawdownSeries(ev) == [k \in 1..Len(ev) |-> RSub(ev[k], CumMax(ev)[k])]

\* (drawdown / running_max) * 100.0
DrawdownPctSeries(ev) ==
    [k \in 1..Len(ev) |->
        FMul(FDiv(DrawdownSeries(ev)[k], CumMax(ev)[k]), R(100))]

\* Series.min(): NaN entries are skipped, NaN when nothing is left.
SeriesMin(sr) ==
    LET vals == {sr[k] : k \in 1..Len(sr)} \ {NaN}
    IN  IF vals = {} THEN NaN
        ELSE CHOOSE m \in vals : \A v \in vals : ~RLt(v, m)

\* Mutation of TradePnls: the commission is not deducted.
TradePnlsGross(ts) == [k \in 1..Len(ts) |-> ts[k].pnl]

\* trade_pnls = [t.pnl - t.commission for t in trades]
TradePnls(ts) == [k \in 1..Len(ts) |-> RSub(ts[k].pnl, ts[k].commission)]

\* p > 0
IsWinning(p) == RGt(p, Zero)

\* winning = [p for p in trade_pnls if p > 0]
Winning(ps) == SelectSeq(ps, IsWinning)

\* losing = [p for p in trade_pnls if p <= 0]
IsLosing(p) == ~RGt(p, Zero)
Losing(ps) == SelectSeq(ps, IsLosing)

\* gross_profit / gross_loss if gross_loss > 0 else float("inf")
ProfitFactor(gross_profit, gross_loss) ==
    IF RGt(gross_loss, Zero) THEN RDiv(gross_profit, gross_loss) ELSE Inf

\* abs(max_drawdown_pct) if max_drawdown_pct != 0 else 1e-10
DdAbs(max_drawdown_pct) ==
    IF max_drawdown_pct # Zero THEN RAbs(max_drawdown_pct) ELSE Epsilon

\* numpy_final tells whether result.final_equity is a numpy float64 (as
\* run() returns once a fill has touched equity) or a Python float (as
\* run() returns otherwise and as a caller builds it): line 55 divides by
\* initial, which raises ZeroDivisionError between Python floats.
\* sharpe_ratio (lines 95-100) is not represented: it takes a square root,
\* raises nothing and no other field depends on it.
calculate_metrics(res, numpy_final) ==
    LET initial == R(res.config.initial_capital)
        final == res.final_equity
        net_profit == RSub(final, initial)
        net_profit_pct == FMul(FDiv(net_profit, initial), R(100))
        max_drawdown == SeriesMin(DrawdownSeries(res.equity_curve))
        max_drawdown_pct == SeriesMin(DrawdownPctSeries(res.equity_curve))
        total_trades == Len(res.trades)
        trade_pnls == TradePnls(res.trades)
        winning == Winning(trade_pnls)
        losing == Losing(trade_pnls)
        win_rate == RMul(RDiv(R(Len(winning)), R(total_trades)), R(100))
        gross_profit == RSum(winning)
        gross_loss == RAbs(RSum(losing))
    IN  IF initial = Zero /\ ~numpy_final THEN Raised("ZeroDivisionError")
        ELSE IF total_trades = 0 THEN
            PerformanceMetrics(net_profit, net_profit_pct,
                RAbs(max_drawdown), RAbs(max_drawdown_pct),
                0, 0, 0, Zero, Zero, Zero)
        ELSE
            PerformanceMetrics(net_profit, net_profit_pct,
                RAbs(max_drawdown), RAbs(max_drawdown_pct),
                total_trades, Len(winning), Len(losing), win_rate,
                ProfitFactor(gross_profit, gross_loss),
                FDiv(net_profit_pct, DdAbs(max_drawdown_pct)))

CalculateMetrics ==
    /\ fn = "calculate_metrics"
    /\ pc = "call"
    /\ \E numpy_final \in BOOL : out' = calculate_metrics(arg, numpy_final)
    /\ pc' = "return"
    /\ UNCHANGED <<fn, arg, frame, run_state>>

\* ------------------------------------------------------------------------
\* validate_ohlcv, src/src/data_loader.py lines 70-95
\* ------------------------------------------------------------------------
MaxRows == 2

\* required = ["open", "high", "low", "close"]
Required == <<"open", "high", "low", "close">>

\* Timestamps of the index and cell values of the frames validated.
Stamps == 1..3
Cells == {NaN, R(1), R(2)}

\* A row of the frame: its index value and the cells of its columns (the
\* cell of a column the frame does not have is never read).
Rows == [time : Stamps, open : {R(1)}, high : Cells, low : {NaN, R(2)},
         close : {R(1)}]

\* The frames validated: the columns of df and its rows in index order.
Frames ==
    [columns : {{"open", "high", "low", "close", "volume"},
                {"open", "close", "volume"}},
     rows : UNION {[1..m -> Rows] : m \in 0..MaxRows}]

\* [c for c in required if c not in df.columns]
Missing(df) == SelectSeq(Required, LAMBDA c : c \notin df.columns)

\* df[col].isna().sum()
NanCount(df, col) ==
    Cardinality({k \in 1..Len(df.rows) : df.rows[k][col] = NaN})

\* for col in required: the issues of the columns required[k..] with NaN.
RECURSIVE NanIssues(_, _)
NanIssues(df, k) ==
    IF k > Len(Required) THEN <<>>
    ELSE LET col == Required[k]
             nan_count == NanCount(df, col)
         IN  (IF nan_count > 0 THEN <<<<"NaN values", col, nan_count>>>>
              ELSE <<>>) \o NanIssues(df, k + 1)

\* (df["high"] < df["low"]).sum(): a comparison with NaN is false.
BadHl(df) ==
    Cardinality({k \in 1..Len(df.rows) :
                    RLt(df.rows[k].high, df.rows[k].low)})

\* df.index.is_monotonic_increasing: every index value is at least the
\* one before it (equal neighbours are monotonic).
IsMonotonicIncreasing(rows) ==
    \A k \in 1..Len(rows) : k > 1 => rows[k - 1].time <= rows[k].time

validate_ohlcv(df) ==
    LET missing == Missing(df)
        bad_hl == BadHl(df)
    IN  IF missing # <<>> THEN <<<<"Missing columns", missing>>>>
        ELSE NanIssues(df, 1)
             \o (IF bad_hl > 0 THEN <<<<"high < low", bad_hl>>>> ELSE <<>>)
             \o (IF ~IsMonotonicIncreasing(df.rows)
                 THEN <<<<"Date index is not monotonically increasing">>>>
                 ELSE <<>>)

ValidateOhlcv ==
    /\ fn = "validate_ohlcv"
    /\ pc = "call"
    /\ out' = validate_ohlcv(arg)
    /\ pc' = "return"
    /\ UNCHANGED <<fn, arg, frame, run_state>>

\* ------------------------------------------------------------------------
\* run_optimization, src/src/optimizer.py lines 49-103
\* ------------------------------------------------------------------------
MaxVariants == 3
MaxAssets == 1

\* IEEE addition and <=.
FAdd(a, b) ==
    IF a = NaN \/ b = NaN THEN NaN
    ELSE IF IsFinite(a) /\ IsFinite(b) THEN RAdd(a, b)
    ELSE IF IsFinite(b) THEN a
    ELSE IF IsFinite(a) THEN b
    ELSE IF a = b THEN a
    ELSE NaN

FLe(a, b) == a # NaN /\ b # NaN /\ (a = b \/ RLt(a, b))

\* OptimizerConfig() of src/src/config.py: min_net_profit_pct = 0.0 and
\* max_drawdown_pct = 50.0.
OptimizerConfig == [min_net_profit_pct |-> Zero, max_drawdown_pct |-> R(50)]

\* The metrics calculate_metrics returns for one variant on one asset
\* (lines 70-75): net_profit_pct, max_drawdown_pct, profit_to_drawdown.
\* The last one is that of a run without trades.
AssetMetrics ==
    {[net_profit_pct |-> R(10), max_drawdown_pct |-> R(5),
      profit_to_drawdown |-> R(2)],
     [net_profit_pct |-> R(20), max_drawdown_pct |-> R(50),
      profit_to_drawdown |-> <<2, 5>>],
     [net_profit_pct |-> R(30), max_drawdown_pct |-> R(60),
      profit_to_drawdown |-> <<1, 2>>],
     [net_profit_pct |-> Zero, max_drawdown_pct |-> Zero,
      profit_to_drawdown |-> Zero]}

\* per_asset of each of v variants, in the order of generate_variants:
\* every variant is run on the same a datasets.
PerAssetOfVariants(v, a) == [1..v -> [1..a -> AssetMetrics]]

\* sum(m.<field> for m in per_asset.values())
RECURSIVE FSum(_)
FSum(s) == IF s = <<>> THEN Zero ELSE FAdd(Head(s), FSum(Tail(s)))

Field(per_asset, f) == [k \in 1..Len(per_asset) |-> per_asset[k][f]]

\* Lines 78-83: the average of a metric over the assets, 0.0 without
\* assets.
Average(per_asset, f) ==
    IF per_asset # <<>>
    THEN FDiv(FSum(Field(per_asset, f)), R(Len(per_asset)))
    ELSE Zero

\* Lines 85-91: the VariantResult of the variant number k.
VariantResult(k, per_asset) ==
    [params |-> k,
     per_asset |-> per_asset,
     avg_net_profit_pct |-> Average(per_asset, "net_profit_pct"),
     avg_max_drawdown_pct |-> Average(per_asset, "max_drawdown_pct"),
     avg_profit_to_drawdown |-> Average(per_asset, "profit_to_drawdown")]

\* results after the loop of lines 66-91.
VariantResults(per_assets) ==
    [k \in 1..Len(per_assets) |-> VariantResult(k, per_assets[k])]

\* Mutation of Passes: a variant that only breaks even is kept.
PassesBreakEven(r, optimizer_config) ==
    /\ FLe(optimizer_config.min_net_profit_pct, r.avg_net_profit_pct)
    /\ FLe(r.avg_max_drawdown_pct, optimizer_config.max_drawdown_pct)

\* The condition of the filter, lines 96-97.
Passes(r, optimizer_config) ==
    /\ RGt(r.avg_net_profit_pct, optimizer_config.min_net_profit_pct)
    /\ FLe(r.avg_max_drawdown_pct, optimizer_config.max_drawdown_pct)

\* results.sort(key=..., reverse=True): r is put before the first result
\* of the sorted list that has a smaller key (the sort is stable).
RECURSIVE InsertByKey(_, _)
InsertByKey(r, sorted) ==
    IF sorted = <<>> THEN <<r>>
    ELSE IF RLt(Head(sorted).avg_profit_to_drawdown,
                r.avg_profit_to_drawdown)
         THEN <<r>> \o sorted
         ELSE <<Head(sorted)>> \o InsertByKey(r, Tail(sorted))

RECURSIVE SortByProfitToDrawdown(_)
SortByProfitToDrawdown(results) ==
    IF results = <<>> THEN <<>>
    ELSE InsertByKey(results[Len(results)],
             SortByProfitToDrawdown(SubSeq(results, 1, Len(results) - 1)))

run_optimization(per_assets, optimizer_config) ==
    LET results == VariantResults(per_assets)
        kept == SelectSeq(results, LAMBDA r : Passes(r, optimizer_config))
    IN  SortByProfitToDrawdown(kept)

RunOptimization ==
    /\ fn = "run_optimization"
    /\ pc = "call"
    /\ out' = run_optimization(arg.per_assets, arg.optimizer_config)
    /\ pc' = "return"
    /\ UNCHANGED <<fn, arg, frame, run_state>>

\* ------------------------------------------------------------------------
\* The functions of metrics.py and data_loader.py, each called once on an
\* input drawn here.
\* ------------------------------------------------------------------------
LibInit ==
    /\ NoRun
    /\ pc = "call"
    /\ out = None
    /\ frame = None
    /\ \/ fn = "calculate_metrics"
          /\ \E c \in ResultCapitals : arg \in BacktestResult(c)
       \/ fn = "validate_ohlcv" /\ arg \in Frames

LibNext ==
    \/ CalculateMetrics
    \/ ValidateOhlcv

LibSpec == LibInit /\ [][LibNext]_vars

\* ------------------------------------------------------------------------
\* generate_variants, src/src/optimizer.py lines 25-46
\* ------------------------------------------------------------------------
MaxParams == 2
MaxValues == 3
MaxCap == 4

\* strategy_cls.param_space(): the parameters are numbered in the order of
\* the dict's keys, and a parameter with m values to test has the values
\* 1..m (the values of a parameter are distinct).  space[k] is the number
\* of values of parameter k.
ParamSpaces == UNION {[1..k -> 0..MaxValues] : k \in 0..MaxParams}

\* list(space.values())
SpaceValues(space) ==
    [k \in 1..Len(space) |-> [j \in 1..space[k] |-> j]]

\* [<<x>> \o c for c in combos], for each x of xs in order.
RECURSIVE Prepend(_, _)
Prepend(xs, combos) ==
    IF xs = <<>> THEN <<>>
    ELSE [j \in 1..Len(combos) |-> <<Head(xs)>> \o combos[j]]
         \o Prepend(Tail(xs), combos)

\* list(itertools.product(*values)): the last list advances fastest.
RECURSIVE Product(_)
Product(values) ==
    IF values = <<>> THEN <<<<>>>>
    ELSE Prepend(Head(values), Product(Tail(values)))

\* Lines 33-46.  A variant dict(zip(keys, combo)) is the combo itself, a
\* function from the parameter numbers to values.  int(i * step) with
\* step = len(all_combos) / max_variants is the integer quotient of
\* i * len(all_combos) by max_variants.  With max_variants = 0 line 44
\* divides by zero.
generate_variants(space, max_variants) ==
    IF space = <<>> THEN [error |-> None, variants |-> <<<<>>>>]
    ELSE LET all_combos == Product(SpaceValues(space))
         IN  IF Len(all_combos) <= max_variants
             THEN [error |-> None, variants |-> all_combos]
             ELSE IF max_variants = 0
             THEN [error |-> "ZeroDivisionError", variants |-> <<>>]
             ELSE [error |-> None,
                   variants |->
                      [ix \in 1..max_variants |->
                          all_combos[((ix - 1) * Len(all_combos))
                                         \div max_variants + 1]]]

GenerateVariants ==
    /\ fn = "generate_variants"
    /\ pc = "call"
    /\ out' = generate_variants(arg.space, arg.max_variants)
    /\ pc' = "return"
    /\ UNCHANGED <<fn, arg, frame, run_state>>

\* ------------------------------------------------------------------------
\* The functions of optimizer.py, each called once on an input drawn here.
\* ------------------------------------------------------------------------
OptInit ==
    /\ NoRun
    /\ pc = "call"
    /\ out = None
    /\ frame = None
    /\ \/ /\ fn = "run_optimization"
          /\ \E v \in 0..MaxVariants, a \in 0..MaxAssets :
                arg \in [per_assets : PerAssetOfVariants(v, a),
                         optimizer_config : {OptimizerConfig}]
       \/ /\ fn = "generate_variants"
          /\ arg \in [space : ParamSpaces, max_variants : 0..MaxCap]

OptNext ==
    \/ RunOptimization
    \/ GenerateVariants

OptSpec == OptInit /\ [][OptNext]_vars

\* ------------------------------------------------------------------------
\* _compute_chunks, src/src/fyers_data.py lines 23-46
\* ------------------------------------------------------------------------
MaxDays == 6
MaxChunkDays == 3

\* A datetime at midnight is a record of year, month and day; a date
\* string 'yyyy-mm-dd' is the tuple of the three numbers it spells.
IsLeap(y) == (y % 4 = 0 /\ y % 100 # 0) \/ y % 400 = 0

DaysInMonth(y, m) ==
    IF m = 2 THEN (IF IsLeap(y) THEN 29 ELSE 28)
    ELSE IF m \in {4, 6, 9, 11} THEN 30
    ELSE 31

\* dt + timedelta(days=1)
NextDay(dt) ==
    IF dt.day < DaysInMonth(dt.year, dt.month)
    THEN [dt EXCEPT !.day = dt.day + 1]
    ELSE IF dt.month < 12
    THEN [dt EXCEPT !.month = dt.month + 1, !.day = 1]
    ELSE [year |-> dt.year + 1, month |-> 1, day |-> 1]

\* The first day of the month after that of dt.
NextMonth(dt) ==
    IF dt.month < 12 THEN [dt EXCEPT !.month = dt.month + 1, !.day = 1]
    ELSE [year |-> dt.year + 1, month |-> 1, day |-> 1]

\* dt + timedelta(days=k), k >= 0: within the month of dt, or counted on
\* from the first day of the next month.
RECURSIVE AddDays(_, _)
AddDays(dt, k) ==
    LET left == DaysInMonth(dt.year, dt.month) - dt.day
    IN  IF k <= left THEN [dt EXCEPT !.day = dt.day + k]
        ELSE AddDays(NextMonth(dt), k - left - 1)

\* a <= b on datetimes
DtLe(a, b) ==
    \/ a.year < b.year
    \/ a.year = b.year /\ a.month < b.month
    \/ a.year = b.year /\ a.month = b.month /\ a.day <= b.day

\* min(a, b)
DtMin(a, b) == IF DtLe(b, a) /\ a # b THEN b ELSE a

\* datetime.strptime(s, "%Y-%m-%d") and dt.strftime("%Y-%m-%d")
Strptime(s) == [year |-> s[1], month |-> s[2], day |-> s[3]]
Strftime(dt) == <<dt.year, dt.month, dt.day>>

\* The dates of the ranges chunked: the days from 2024-02-27 on, across
\* the leap day and the end of the month.
FirstDay == [year |-> 2024, month |-> 2, day |-> 27]
DateStrings == {Strftime(AddDays(FirstDay, k)) : k \in 0..(MaxDays - 1)}

\* Lines 36-40: the locals before the loop.
ChunkLocals(start_date, end_date) ==
    [start |-> Strptime(start_date), end |-> Strptime(end_date),
     chunks |-> <<>>, current |-> Strptime(start_date)]

\* Mutation of ChunkBody: the next chunk starts on the day the chunk ends.
ChunkBodyOverlapping(f, chunk_days) ==
    LET chunk_end == DtMin(AddDays(f.current, chunk_days - 1), f.end)
    IN  [f EXCEPT !.chunks = Append(@, <<Strftime(f.current),
                                         Strftime(chunk_end)>>),
                  !.current = IF chunk_end = f.end THEN NextDay(chunk_end)
                              ELSE chunk_end]

\* Lines 42-44: one iteration of the loop.
ChunkBody(f, chunk_days) ==
    LET chunk_end == DtMin(AddDays(f.current, chunk_days - 1), f.end)
    IN  [f EXCEPT !.chunks = Append(@, <<Strftime(f.current),
                                         Strftime(chunk_end)>>),
                  !.current = NextDay(chunk_end)]

ComputeChunksEnter ==
    /\ fn = "_compute_chunks"
    /\ pc = "call"
    /\ frame' = ChunkLocals(arg.start_date, arg.end_date)
    /\ pc' = "while"
    /\ UNCHANGED <<fn, arg, out, run_state>>

\* while current <= end
ComputeChunksLoop ==
    /\ fn = "_compute_chunks"
    /\ pc = "while"
    /\ DtLe(frame.current, frame.end)
    /\ frame' = ChunkBody(frame, arg.chunk_days)
    /\ UNCHANGED <<fn, arg, out, pc, run_state>>

\* return chunks
ComputeChunksReturn ==
    /\ fn = "_compute_chunks"
    /\ pc = "while"
    /\ ~DtLe(frame.current, frame.end)
    /\ out' = frame.chunks
    /\ pc' = "return"
    /\ UNCHANGED <<fn, arg, frame, run_state>>

ComputeChunks ==
    \/ ComputeChunksEnter
    \/ ComputeChunksLoop
    \/ ComputeChunksReturn

\* ------------------------------------------------------------------------
\* fetch_historical, src/src/fyers_data.py lines 50-100
\* ------------------------------------------------------------------------
MaxChunks == 3
MaxCandles == 1

INTRADAY_CHUNK_DAYS == 90
DAILY_CHUNK_DAYS == 350

INTRADAY_RESOLUTIONS ==
    {"1", "2", "3", "5", "10", "15", "20", "30", "60", "120", "240"}

\* The resolutions requested: five minutes and a day.
Resolutions == {"5", "D"}

_is_intraday(resolution) == resolution \in INTRADAY_RESOLUTIONS

\* _compute_chunks as a function: the loop run to its end.
RECURSIVE ChunkLoop(_, _)
ChunkLoop(f, chunk_days) ==
    IF DtLe(f.current, f.end) THEN ChunkLoop(ChunkBody(f, chunk_days), chunk_days)
    ELSE f.chunks

_compute_chunks(start_date, end_date, chunk_days) ==
    ChunkLoop(ChunkLocals(start_date, end_date), chunk_days)

\* The ranges fetched start on one of the first two days and end on the
\* first day or a whole number of intraday chunks after it: ranges of
\* zero to MaxChunks intraday chunks.
FetchStarts == {Strftime(FirstDay), Strftime(NextDay(FirstDay))}
FetchEnds ==
    {Strftime(AddDays(FirstDay, k * INTRADAY_CHUNK_DAYS))
        : k \in 0..(MaxChunks - 1)}

\* A candle [epoch_timestamp, open, high, low, close, volume] is the pair
\* of its timestamp and its prices; two candles of one timestamp can
\* carry different prices.
CandleSet == {<<1, 1>>, <<1, 2>>, <<2, 1>>}

\* What fyers_client.history(data) answers: an error, or up to MaxCandles
\* candles in any order.
Responses ==
    {[s |-> "error", candles |-> <<>>]} \cup
    {[s |-> "ok", candles |-> cs]
        : cs \in UNION {[1..k -> CandleSet] : k \in 0..MaxCandles}}

\* df.index.is_monotonic_increasing of the frame built from the candles.
CandlesMonotonic(cs) ==
    \A k \in 1..Len(cs) : k > 1 => cs[k - 1][1] <= cs[k][1]

\* The numbers of the rows of cs that have the timestamp t, in order.
RowsAt(cs, t) ==
    SelectSeq([k \in 1..Len(cs) |-> k], LAMBDA k : cs[k][1] = t)

\* The rows of cs from timestamp t on, sorted by timestamp, with the row
\* lead[t] first among the rows of timestamp t.
RECURSIVE SortedFrom(_, _, _)
SortedFrom(cs, lead, t) ==
    IF \A k \in 1..Len(cs) : cs[k][1] < t THEN <<>>
    ELSE LET at == RowsAt(cs, t)
             rest == SelectSeq(at, LAMBDA k : k # lead[t])
         IN  (IF at = <<>> THEN <<>>
              ELSE <<cs[lead[t]]>> \o [j \in 1..Len(rest) |-> cs[rest[j]]])
             \o SortedFrom(cs, lead, t + 1)

\* For every timestamp of cs one of its rows (row 1 for a timestamp cs
\* does not have).
Leads(cs) ==
    {lead \in [{c[1] : c \in CandleSet} -> 1..Len(cs)] :
        \A t \in DOMAIN lead :
            IF RowsAt(cs, t) = <<>> THEN lead[t] = 1
            ELSE cs[lead[t]][1] = t}

\* candles_to_dataframe (lines 103-114): the rows in the order of
\* df.sort_index().  A frame whose index is already monotonic is returned
\* as it is; otherwise the rows are sorted with the default kind
\* "quicksort", which is not stable: any row of a timestamp can come
\* first among the rows of that timestamp.  (The rows behind it are kept
\* in their order here: line 98 drops them.)
candles_to_dataframe(candles) ==
    IF CandlesMonotonic(candles) THEN {candles}
    ELSE {SortedFrom(candles, lead, 1) : lead \in Leads(candles)}

\* Mutation of DropDuplicated: keep="last".
DropDuplicatedKeepLast(df) ==
    SelectSeq([k \in 1..Len(df) |-> <<df[k], k>>],
              LAMBDA r : \A j \in 1..Len(df) :
                            j > r[2] => df[j][1] # r[1][1])

\* df[~df.index.duplicated(keep="first")]: the rows whose timestamp no
\* earlier row has (each row paired with its position).
DropDuplicated(df) ==
    SelectSeq([k \in 1..Len(df) |-> <<df[k], k>>],
              LAMBDA r : \A j \in 1..Len(df) :
                            j < r[2] => df[j][1] # r[1][1])

Rows0(df) == [k \in 1..Len(df) |-> df[k][1]]

\* Lines 68-71: chunk_days, chunks and all_candles; k is the number of
\* the chunk the loop requests next; requests and responses are the calls
\* of fyers_client.history so far and their answers.
FetchLocals(resolution, start_date, end_date) ==
    LET chunk_days == IF _is_intraday(resolution)
                      THEN INTRADAY_CHUNK_DAYS ELSE DAILY_CHUNK_DAYS
    IN  [chunks |-> _compute_chunks(start_date, end_date, chunk_days),
         k |-> 1, all_candles |-> <<>>,
         requests |-> <<>>, responses |-> <<>>]

FetchHistoricalEnter ==
    /\ fn = "fetch_historical"
    /\ pc = "call"
    /\ frame' = FetchLocals(arg.resolution, arg.start_date, arg.end_date)
    /\ pc' = "for"
    /\ UNCHANGED <<fn, arg, out, run_state>>

\* Lines 72-90: one iteration of the loop over the chunks.
FetchHistoricalRequest ==
    /\ fn = "fetch_historical"
    /\ pc = "for"
    /\ frame.k <= Len(frame.chunks)
    /\ \E response \in Responses :
          LET data == [resolution |-> arg.resolution,
                       range_from |-> frame.chunks[frame.k][1],
                       range_to |-> frame.chunks[frame.k][2]]
              asked == [frame EXCEPT !.requests = Append(@, data),
                                     !.responses = Append(@, response)]
          IN  IF response.s # "ok"
              THEN /\ frame' = asked
                   /\ out' = [error |-> "RuntimeError", df |-> <<>>]
                   /\ pc' = "return"
              ELSE /\ frame' = [asked EXCEPT
                                   !.all_candles = @ \o response.candles,
                                   !.k = @ + 1]
                   /\ UNCHANGED <<out, pc>>
    /\ UNCHANGED <<fn, arg, run_state>>

\* Lines 92-100: after the loop.
FetchHistoricalFinish ==
    /\ fn = "fetch_historical"
    /\ pc = "for"
    /\ frame.k > Len(frame.chunks)
    /\ IF frame.all_candles = <<>>
       THEN out' = [error |-> "ValueError", df |-> <<>>]
       ELSE \E df \in candles_to_dataframe(frame.all_candles) :
               out' = [error |-> None, df |-> Rows0(DropDuplicated(df))]
    /\ pc' = "return"
    /\ UNCHANGED <<fn, arg, frame, run_state>>

FetchHistorical ==
    \/ FetchHistoricalEnter
    \/ FetchHistoricalRequest
    \/ FetchHistoricalFinish

\* ------------------------------------------------------------------------
\* The functions of fyers_data.py, each called once on an input drawn
\* here.  A step of _compute_chunks that can be taken is taken eventually
\* (the function runs on its own; fetch_historical waits for the answers
\* of the client).
\* ------------------------------------------------------------------------
FetchInit ==
    /\ NoRun
    /\ pc = "call"
    /\ out = None
    /\ frame = None
    /\ \/ /\ fn = "_compute_chunks"
          /\ arg \in [start_date : DateStrings, end_date : DateStrings,
                      chunk_days : 1..MaxChunkDays]
       \/ /\ fn = "fetch_historical"
          /\ arg \in [resolution : Resolutions, start_date : FetchStarts,
                      end_date : FetchEnds]

FetchNext ==
    \/ ComputeChunks
    \/ FetchHistorical

FetchSpec == FetchInit /\ [][FetchNext]_vars /\ WF_vars(ComputeChunks)

\* ------------------------------------------------------------------------
\* Helpers of the properties
\* ------------------------------------------------------------------------
LastTrade(ts) == ts[Len(ts)]
Entries == {"long_entry", "short_entry"}
Exits == {"long_exit", "short_exit"}

\* The flag of row b that corresponds to the pending action p.
Flag(b, p) ==
    IF p = "long_entry" THEN b.long_entry
    ELSE IF p = "long_exit" THEN b.long_exit
    ELSE IF p = "short_entry" THEN b.short_entry
    ELSE IF p = "short_exit" THEN b.short_exit
    ELSE FALSE

\* The step is the forced close of lines 161-191.
AtForcedClose == pc = "loop" /\ i = n

\* The step is a step of run(), not the start of the next call.
WithinRun == pc # "done"

\* ------------------------------------------------------------------------
\* C1  Next-bar fill.  A signal honoured at a bar i that is not the last
\* (it was flagged on row i and made the pending action) is filled by the
\* very next step of the run, at bar i+1: an entry sets entry_price to
\* open[i+1] and entry_time to time[i+1], an exit appends a trade whose
\* exit_price is open[i+1] and whose exit_time is time[i+1].  Apart from
\* the forced close no other step changes equity, position, entry data or
\* the trade list, so nothing is filled on the bar that raised the signal
\* or at a price that is not a bar's open.
\* ------------------------------------------------------------------------
C1_NextBarFill ==
    [][ /\ (pc = "loop" /\ i < n /\ pending_signal # None) =>
              /\ i >= 1
              /\ Flag(bar, pending_signal)
              /\ i' = i + 1
              /\ pending_signal \in Entries =>
                    /\ entry_price' = R(bar'.open)
                    /\ entry_time' = times(i + 1)
                    /\ direction' =
                          (IF pending_signal = "long_entry"
                           THEN "long" ELSE "short")
                    /\ trades' = trades
              /\ pending_signal \in Exits =>
                    /\ Len(trades') = Len(trades) + 1
                    /\ LastTrade(trades').exit_price = R(bar'.open)
                    /\ LastTrade(trades').exit_time = times(i + 1)
                    /\ position' = Zero
        /\ (WithinRun /\ ~AtForcedClose
            /\ ~(pc = "loop" /\ pending_signal # None)) =>
              UNCHANGED <<equity, position, entry_price, entry_time,
                          direction, trades>>
      ]_vars

\* Witness of C1: an exit signal raised at bar i-1 has just been filled at
\* the open of bar i, at a price different from the entry price.
C1_Witness ==
    /\ pc = "mark"
    /\ i >= 3
    /\ Len(trades) >= 1
    /\ LastTrade(trades).exit_time = times(i)
    /\ LastTrade(trades).exit_price = R(bar.open)
    /\ LastTrade(trades).entry_time = times(i - 1)
    /\ LastTrade(trades).entry_price # LastTrade(trades).exit_price

\* ------------------------------------------------------------------------
\* C2  No same-bar close.  An exit signal flagged on the bar on which the
\* entry filled is honoured (it becomes the pending action) but that step
\* leaves position, equity and trades untouched; the exit fills at the
\* following bar's open.  Every trade closed by an exit signal has its exit
\* bar strictly later than its entry bar.
\* ------------------------------------------------------------------------
C2_NoSameBarClose ==
    [][ /\ (pc = "signal" /\ position # Zero /\ entry_time = times(i)
            /\ (IF RGt(position, Zero) THEN bar'.long_exit
                                       ELSE bar'.short_exit)) =>
              /\ pending_signal' =
                    (IF RGt(position, Zero) THEN "long_exit" ELSE "short_exit")
              /\ UNCHANGED <<position, equity, trades, entry_time>>
        /\ (pc = "loop" /\ i < n /\ pending_signal \in Exits
            /\ entry_time = times(i)) =>
              /\ Len(trades') = Len(trades) + 1
              /\ LastTrade(trades').entry_time = times(i)
              /\ LastTrade(trades').exit_time = times(i + 1)
              /\ LastTrade(trades').exit_price = R(bar'.open)
        /\ (WithinRun /\ ~AtForcedClose /\ trades' # trades) =>
              /\ Len(trades') = Len(trades) + 1
              /\ LastTrade(trades').exit_time > LastTrade(trades').entry_time
      ]_vars

\* Witness of C2: the entry filled at bar i, the exit flagged on that same
\* bar is pending and the position is still open.
C2_Witness ==
    /\ pc = "loop"
    /\ i < n
    /\ position # Zero
    /\ entry_time = times(i)
    /\ pending_signal \in Exits
    /\ Flag(bar, pending_signal)

\* ------------------------------------------------------------------------
\* C3  No pyramiding.  The positions opened so far exceed the trades
\* recorded by at most one (exactly by one while a position is open), an
\* open position is never altered except by closing it, which records
\* exactly one trade, an entry flag seen while a position is open changes
\* nothing, and when run() returns the number of trades equals the number
\* of positions opened.
\* ------------------------------------------------------------------------
C3_NoPyramiding ==
    /\ [](pc \in {"loop", "mark", "signal"} =>
             opened = Len(trades) + (IF position # Zero THEN 1 ELSE 0))
    /\ [](pc \in {"ret", "done"} => opened = Len(trades))
    /\ [](pc = "done" => Len(result.trades) = opened)
    /\ [][ /\ (WithinRun /\ position # Zero /\ ~AtForcedClose) =>
                 \/ position' = position /\ trades' = trades
                 \/ position' = Zero /\ Len(trades') = Len(trades) + 1
           /\ (pc = "signal" /\ position # Zero
               /\ (bar'.long_entry \/ bar'.short_entry)) =>
                 /\ pending_signal' \notin Entries
                 /\ UNCHANGED <<position, equity, trades, opened>>
           /\ WithinRun => Len(trades') \in {Len(trades), Len(trades) + 1}
         ]_vars

\* Witness of C3: two positions were opened and closed, the second one by
\* the forced close, and an entry flag was raised on the last bar while the
\* second position was open.
C3_Witness ==
    /\ pc = "done"
    /\ opened = 2
    /\ Len(result.trades) = 2
    /\ position # Zero
    /\ (bar.long_entry \/ bar.short_entry)

\* ------------------------------------------------------------------------
\* C4  Illegal signals are dropped, not queued.  When the signals of a bar
\* are evaluated the pending slot is empty; an entry flag seen while a
\* position is open never becomes pending and neither does an exit flag
\* seen while flat; a bar without a legal signal leaves the slot empty and
\* the ledger untouched.  The slot is emptied by every execution step, and
\* every fill is caused by a flag of the immediately preceding bar that was
\* legal for the position held on that bar: so a dropped signal causes no
\* fill on any later bar.
\* ------------------------------------------------------------------------
LegalSignal(pos, b) ==
    \/ RGt(pos, Zero) /\ b.long_exit
    \/ RLt(pos, Zero) /\ b.short_exit
    \/ pos = Zero /\ (b.long_entry \/ b.short_entry)

C4_IllegalSignalsDropped ==
    [][ /\ pc = "signal" =>
              /\ pending_signal = None
              /\ position # Zero => pending_signal' \notin Entries
              /\ position = Zero => pending_signal' \notin Exits
              /\ ~LegalSignal(position, bar') => pending_signal' = None
              /\ UNCHANGED <<equity, position, entry_price, entry_time,
                             direction, trades, opened>>
        /\ (pc = "loop" /\ i < n) =>
              /\ pending_signal' = None
              /\ (position' # position \/ entry_time' # entry_time
                  \/ trades' # trades \/ equity' # equity) =>
                    /\ pending_signal # None
                    /\ Flag(bar, pending_signal)
                    /\ LegalSignal(position, bar)
                    /\ pending_signal \in Entries <=> position = Zero
      ]_vars

\* Witness of C4: an entry flag was raised while a position was open on a
\* bar that is not the last; only the exit flagged on that bar is pending.
C4_Witness ==
    /\ pc = "loop"
    /\ i < n
    /\ position # Zero
    /\ (bar.long_entry \/ bar.short_entry)
    /\ pending_signal \in Exits

\* ------------------------------------------------------------------------
\* C5  Signal priority.  The evaluation of a bar's flags leaves exactly one
\* value in the pending slot: the exit of the open direction whenever that
\* exit flag is set, whatever the other flags are; an entry only when the
\* position is flat at that moment.  A long-exit flagged together with a
\* short-entry on a bar where a long is open closes the long on the next
\* bar and opens nothing.
\* ------------------------------------------------------------------------
C5_SignalPriority ==
    [][ /\ pc = "signal" =>
              /\ pending_signal' \in {None} \cup Entries \cup Exits
              /\ (RGt(position, Zero) /\ bar'.long_exit) =>
                    pending_signal' = "long_exit"
              /\ (RLt(position, Zero) /\ bar'.short_exit) =>
                    pending_signal' = "short_exit"
              /\ pending_signal' \in Entries =>
                    position = Zero /\ Flag(bar', pending_signal')
              /\ pending_signal' = "long_exit" => RGt(position, Zero)
              /\ pending_signal' = "short_exit" => RLt(position, Zero)
        /\ (pc = "loop" /\ i < n /\ RGt(position, Zero)
            /\ bar.long_exit /\ bar.short_entry) =>
              /\ position' = Zero
              /\ direction' = None
              /\ pending_signal' = None
              /\ Len(trades') = Len(trades) + 1
              /\ LastTrade(trades').direction = "long"
      ]_vars

\* Witness of C5: all four flags are set on a bar on which a long position
\* is open, and the pending action is the long exit.
C5_Witness ==
    /\ pc = "loop"
    /\ i < n
    /\ RGt(position, Zero)
    /\ bar.long_exit /\ bar.short_entry /\ bar.long_entry /\ bar.short_exit
    /\ pending_signal = "long_exit"

\* ------------------------------------------------------------------------
\* C6  Forced close.  If a position is open when the loop has processed the
\* last bar, run() appends exactly one trade for it, with exit_price the
\* close of the last bar and exit_time the timestamp of the last bar; if no
\* position is open the trade list is left alone.  A run whose only
\* position is still open at the end of the series returns exactly one
\* trade, the force-closed one.
\* ------------------------------------------------------------------------
C6_ForcedClose ==
    /\ [][ AtForcedClose =>
              IF position # Zero
              THEN /\ n >= 1
                   /\ Len(trades') = Len(trades) + 1
                   /\ SubSeq(trades', 1, Len(trades)) = trades
                   /\ LastTrade(trades').exit_price = R(bar.close)
                   /\ LastTrade(trades').exit_time = times(n)
                   /\ LastTrade(trades').entry_price = entry_price
                   /\ LastTrade(trades').entry_time = entry_time
              ELSE trades' = trades
         ]_vars
    /\ []((pc = "done" /\ opened = 1 /\ position # Zero) =>
             /\ Len(result.trades) = 1
             /\ result.trades[1].exit_price = R(bar.close)
             /\ result.trades[1].exit_time = times(n))

\* Witness of C6: the run returned one trade, entered before the last bar
\* and force-closed at the last bar's close, which differs from its open.
C6_Witness ==
    /\ pc = "done"
    /\ opened = 1
    /\ Len(result.trades) = 1
    /\ result.trades[1].entry_time < n
    /\ result.trades[1].exit_time = times(n)
    /\ result.trades[1].exit_price = R(bar.close)
    /\ bar.close # bar.open

\* ------------------------------------------------------------------------
\* C7  Every Trade record's commission is the total round-trip commission:
\* the entry-leg commission (qty x entry price x commission_pct / 100) plus
\* the exit-leg commission (qty x exit price x commission_pct / 100), for
\* trades closed by an exit signal and for force-closed trades alike.
\* ------------------------------------------------------------------------
PctOf(x, pct) == RDiv(RMul(x, R(pct)), R(100))

C7_RoundTripCommission ==
    \A k \in 1..Len(trades) :
        trades[k].commission =
            RAdd(PctOf(RMul(trades[k].qty, trades[k].entry_price),
                       cfg.commission_pct),
                 PctOf(RMul(trades[k].qty, trades[k].exit_price),
                       cfg.commission_pct))

\* ------------------------------------------------------------------------
\* C8  Ledger conservation: when run() has returned, final_equity minus
\* initial_capital equals the sum over the returned trades of
\* pnl - commission.
\* ------------------------------------------------------------------------
NetPnls(ts) == [k \in 1..Len(ts) |-> RSub(ts[k].pnl, ts[k].commission)]

C8_LedgerConservation ==
    pc = "done" =>
        RSub(result.final_equity, R(cfg.initial_capital))
            = RSum(NetPnls(result.trades))

\* ------------------------------------------------------------------------
\* C9  Entry sizing: an entry fill at price P with realized equity E sets
\* the quantity to (E x position_size_pct / 100) / P and reduces realized
\* equity by quantity x P x commission_pct / 100; the quantity recorded on
\* the trade that closes the position is exactly this entry quantity (the
\* local qty still holds it when the position is closed).
\* ------------------------------------------------------------------------
C9_EntrySizing ==
    [][ /\ (pc = "loop" /\ i < n /\ pending_signal \in Entries) =>
              /\ qty' = RDiv(PctOf(equity, cfg.position_size_pct),
                             R(bar'.open))
              /\ RAbs(position') = RAbs(qty')
              /\ equity' = RSub(equity,
                               PctOf(RMul(qty', R(bar'.open)),
                                     cfg.commission_pct))
        /\ (WithinRun /\ trades' # trades) => LastTrade(trades').qty = qty
      ]_vars

\* ------------------------------------------------------------------------
\* C10 (as claimed)  Exit accounting: every exit fill and the forced close,
\* at price F, of a position with entry price P and quantity q = |position|
\* records pnl = q x (F - P) for a long and q x (P - F) for a short, changes
\* realized equity by exactly pnl minus the exit commission, and returns
\* the position to flat; a short trade with exit below entry has pnl > 0.
\* ------------------------------------------------------------------------
ExitAccounting(t) ==
    LET q == RAbs(position)
        F == t.exit_price
        P == t.entry_price
    IN  /\ t.qty = q
        /\ P = entry_price
        /\ t.direction = (IF RGt(position, Zero) THEN "long" ELSE "short")
        /\ t.pnl = (IF t.direction = "long"
                    THEN RMul(q, RSub(F, P)) ELSE RMul(q, RSub(P, F)))
        /\ equity' = RSub(RAdd(equity, t.pnl),
                          PctOf(RMul(q, F), cfg.commission_pct))
        /\ (t.direction = "short" /\ RLt(F, P)) => RGt(t.pnl, Zero)

C10_ExitAccounting ==
    [][ (WithinRun /\ trades' # trades) =>
            /\ position # Zero
            /\ ExitAccounting(LastTrade(trades'))
            /\ position' = Zero
      ]_vars

\* ------------------------------------------------------------------------
\* C10 (amended)  Exit accounting: as above for the pnl and the equity of
\* every exit fill and of the forced close; the position returns to flat
\* after an exit fill, whereas the forced close leaves the local position
\* as it was (run() returns without reading it again).
\* ------------------------------------------------------------------------
C10_ExitAccountingAmended ==
    [][ (WithinRun /\ trades' # trades) =>
            /\ position # Zero
            /\ ExitAccounting(LastTrade(trades'))
            /\ IF AtForcedClose THEN position' = position
                                ELSE position' = Zero
      ]_vars

\* Witness of C10: a short position has just been closed by an exit fill
\* below its entry price, with a positive pnl, and the position is flat.
C10_Witness ==
    /\ pc = "mark"
    /\ Len(trades) >= 1
    /\ LastTrade(trades).exit_time = times(i)
    /\ LastTrade(trades).direction = "short"
    /\ RLt(LastTrade(trades).exit_price, LastTrade(trades).entry_price)
    /\ RGt(LastTrade(trades).pnl, Zero)
    /\ position = Zero
    /\ cfg.commission_pct > 0

\* ------------------------------------------------------------------------
\* C11  Position sign matches the entry type: a long-entry fill leaves a
\* strictly positive position labelled "long", a short-entry fill leaves a
\* strictly negative position labelled "short", whatever the realized
\* equity and position_size_pct are; every Trade has qty > 0 and the
\* direction of the entry signal that opened it (the direction label set
\* by that entry fill).
\* ------------------------------------------------------------------------
C11_PositionSign ==
    [][ /\ (pc = "loop" /\ i < n /\ position = Zero
            /\ pending_signal = "long_entry") =>
              RGt(position', Zero) /\ direction' = "long"
        /\ (pc = "loop" /\ i < n /\ position = Zero
            /\ pending_signal = "short_entry") =>
              RLt(position', Zero) /\ direction' = "short"
        /\ (WithinRun /\ trades' # trades) =>
              /\ RGt(LastTrade(trades').qty, Zero)
              /\ LastTrade(trades').direction = direction
      ]_vars

\* ------------------------------------------------------------------------
\* C12  The equity curve has exactly one entry per input bar, aligned by
\* position, and none is left at the NaN placeholder: while run() is in
\* the loop the entries of the bars already marked hold a value and the
\* others are still NaN; the curve returned has the n positions 1..n and a
\* value at each of them.
\* ------------------------------------------------------------------------
Marked == IF pc = "mark" THEN i - 1 ELSE i

C12_EquityCurveComplete ==
    /\ DOMAIN equity_values = 1..n
    /\ \A k \in 1..n : (equity_values[k] # NaN) <=> (k <= Marked)
    /\ pc = "done" =>
          /\ DOMAIN result.equity_curve = 1..n
          /\ \A k \in 1..n : result.equity_curve[k] # NaN

\* Witness of C12: a run over at least three bars returned; it was flat on
\* the first bar and held a position on a later one, whose value differs
\* from the initial capital.
C12_Witness ==
    /\ pc = "done"
    /\ n >= 3
    /\ Len(result.equity_curve) = n
    /\ result.equity_curve[1] = R(cfg.initial_capital)
    /\ result.equity_curve[2] # R(cfg.initial_capital)
    /\ \A k \in 1..n : result.equity_curve[k] # NaN

\* ------------------------------------------------------------------------
\* C13  Equity-curve value.  The value written for bar i is the realized
\* equity after the fill executed at bar i's open plus the unrealized
\* mark-to-market at close[i] of the position then open: position x
\* (close - entry) for a long, |position| x (entry - close) for a short,
\* zero when flat.  It is written after the bar's pending fill (which does
\* not write the curve) and before the bar's signals are evaluated (the
\* pending slot is still empty and evaluating the signals does not write
\* the curve); only entry i is written.
\* ------------------------------------------------------------------------
Unrealized(close) ==
    IF RGt(position, Zero) THEN RMul(position, RSub(close, entry_price))
    ELSE IF RLt(position, Zero)
         THEN RMul(RAbs(position), RSub(entry_price, close))
         ELSE Zero

C13_EquityCurveValue ==
    [][ /\ pc = "mark" =>
              /\ equity_values'[i] = RAdd(equity, Unrealized(R(bar'.close)))
              /\ \A k \in 1..n : k # i => equity_values'[k] = equity_values[k]
              /\ pending_signal = None
              /\ pc' = "signal"
              /\ UNCHANGED <<equity, position, entry_price, trades, i>>
        /\ (pc = "loop" /\ i < n) =>
              pc' = "mark" /\ equity_values' = equity_values
        /\ pc = "signal" => equity_values' = equity_values
      ]_vars

\* Witness of C13: a short position was opened by the fill of this bar,
\* with an entry commission, and the bar closed away from the entry price:
\* the value written is neither the initial capital nor the realized
\* equity.
C13_Witness ==
    /\ pc = "signal"
    /\ RLt(position, Zero)
    /\ entry_time = times(i)
    /\ cfg.commission_pct > 0
    /\ R(bar.close) # entry_price
    /\ equity_values[i] # equity
    /\ equity_values[i] # R(cfg.initial_capital)
    /\ equity_values[i] = RAdd(equity, Unrealized(R(bar.close)))

\* ------------------------------------------------------------------------
\* C14  For every non-empty run the last equity-curve entry equals
\* final_equity.  When the run ends flat the forced-close step changes
\* nothing and both are the realized equity; when a position is open the
\* forced close sets realized equity to equity + pnl - exit commission and
\* writes that value into the last curve entry, leaving the other entries
\* alone.
\* ------------------------------------------------------------------------
C14_LastEntryIsFinalEquity ==
    /\ []((pc = "done" /\ n >= 1) =>
             /\ result.equity_curve[n] = result.final_equity
             /\ result.final_equity = equity)
    /\ [][ AtForcedClose =>
              IF position # Zero
              THEN /\ equity' =
                        RSub(RAdd(equity, pnl'),
                             PctOf(RMul(RAbs(position), R(bar.close)),
                                   cfg.commission_pct))
                   /\ equity_values'[n] = equity'
                   /\ \A k \in 1..n :
                         k # n => equity_values'[k] = equity_values[k]
              ELSE /\ UNCHANGED <<equity, equity_values>>
                   /\ n >= 1 => equity_values[n] = equity
         ]_vars

\* Witness of C14: a position was force-closed with an exit commission at
\* a close different from its entry price; the last curve entry is the
\* final equity, which differs from the equity of the previous bar's end.
C14_Witness ==
    /\ pc = "done"
    /\ n >= 2
    /\ position # Zero
    /\ cfg.commission_pct > 0
    /\ R(bar.close) # entry_price
    /\ LastTrade(result.trades).exit_time = times(n)
    /\ result.equity_curve[n] = result.final_equity
    /\ result.equity_curve[n] # result.equity_curve[n - 1]

\* ------------------------------------------------------------------------
\* C15  Realized equity is mutated only at fill events.  On a bar whose
\* loop header finds no pending action, none of the three steps of the bar
\* (header, equity-curve value, signal evaluation) changes realized equity,
\* position quantity, entry price or the trade list, whatever open, close
\* and flags the bar has; on any bar the last two steps change none of
\* them; and a step of run() that changes realized equity is an entry
\* fill, an exit fill or the forced close of an open position.
\* ------------------------------------------------------------------------
Realized == <<equity, position, entry_price, trades>>

FillEvent ==
    \/ pc = "loop" /\ i < n /\ pending_signal # None
    \/ AtForcedClose /\ position # Zero

C15_EquityOnlyAtFills ==
    [][ WithinRun =>
          /\ (pc = "loop" /\ i < n /\ pending_signal = None) =>
                UNCHANGED Realized
          /\ pc \in {"mark", "signal"} => UNCHANGED Realized
          /\ ~FillEvent => UNCHANGED Realized
          /\ equity' # equity => FillEvent
      ]_vars

\* Witness of C15: a position entered on an earlier bar is open; the bar
\* just processed executed nothing, moved from its open to a different
\* close away from the entry price, raised entry flags and no exit flag of
\* the open direction, and leaves nothing pending.
C15_Witness ==
    /\ pc = "loop"
    /\ i >= 3
    /\ position # Zero
    /\ entry_time < times(i)
    /\ bar.close # bar.open
    /\ bar.long_entry /\ bar.short_entry
    /\ pending_signal = None
    /\ trades = <<>>
    /\ equity_values[i] # equity

\* ------------------------------------------------------------------------
\* C16  A series with no signals yields no trades and a flat curve.  As
\* long as every flag read so far was false, nothing is pending, the
\* position is flat, no trade is recorded, realized equity is
\* initial_capital and so is every equity-curve entry written; when such a
\* run returns, its result has zero trades, the curve equals
\* initial_capital at every bar and final_equity equals initial_capital.
\* A df passed without any signal column is such a series, whatever its
\* prices are.
\* ------------------------------------------------------------------------
NoSignalRun == ~flagged \/ data_columns = {}

C16_NoSignalsNoTrades ==
    /\ data_columns = {} => ~flagged
    /\ NoSignalRun =>
          /\ pending_signal = None
          /\ position = Zero
          /\ trades = <<>>
          /\ equity = R(cfg.initial_capital)
          /\ \A k \in 1..Marked : equity_values[k] = R(cfg.initial_capital)
    /\ (pc = "done" /\ NoSignalRun) =>
          /\ result.trades = <<>>
          /\ \A k \in 1..n : result.equity_curve[k] = R(cfg.initial_capital)
          /\ result.final_equity = R(cfg.initial_capital)

\* Witness of C16: run() returned for a df of at least three bars that had
\* none of the signal columns and whose last bar closed away from its
\* open.
C16_Witness ==
    /\ pc = "done"
    /\ n >= 3
    /\ data_columns = {}
    /\ df_columns = SignalColumnNames
    /\ bar.close # bar.open
    /\ result.trades = <<>>
    /\ result.final_equity = R(cfg.initial_capital)
    /\ result.equity_curve[n] = R(cfg.initial_capital)

\* ------------------------------------------------------------------------
\* C17  Commission deduction: when a run with commission_pct > 0 that
\* produced at least one trade returns, its final_equity is strictly lower
\* than the final equity of the run on the same series, signals, initial
\* capital and position size with commission_pct = 0.
\* ------------------------------------------------------------------------
C17_CommissionDeduction ==
    (pc = "done" /\ cfg.commission_pct > 0 /\ Len(result.trades) >= 1) =>
        RLt(result.final_equity, ref.equity)

C19_CallerSeriesUnchanged ==
    [][ WithinRun => df_columns' = df_columns ]_vars

ValidConfig(c) ==
    /\ c.initial_capital > 0
    /\ c.commission_pct >= 0
    /\ c.position_size_pct >= 0

C21_ConfigFailsFast ==
    (fn = "run" /\ pc # "start") => ValidConfig(cfg)

\* ------------------------------------------------------------------------
\* C22  Degenerate run: run() on a series of zero bars returns an empty
\* trade list, an empty equity curve and final_equity equal to
\* initial_capital; the loop body is never entered and the forced-close
\* step finds no open position and changes nothing.
\* ------------------------------------------------------------------------
C22_ZeroBars ==
    /\ [](n = 0 =>
             /\ pc \in {"start", "loop", "ret", "done"}
             /\ position = Zero
             /\ trades = <<>>
             /\ equity = R(cfg.initial_capital))
    /\ []((pc = "done" /\ n = 0) =>
             /\ result.trades = <<>>
             /\ result.equity_curve = <<>>
             /\ result.final_equity = R(cfg.initial_capital))
    /\ [][ (AtForcedClose /\ n = 0) =>
               pc' = "ret" /\ UNCHANGED <<ledger, equity_values>> ]_vars

\* Witness of C22: run() returned for a df of zero bars that lacked the
\* signal columns, on an engine with a positive initial capital.
C22_Witness ==
    /\ pc = "done"
    /\ n = 0
    /\ cfg.initial_capital > 0
    /\ df_columns # data_columns
    /\ result.trades = <<>>
    /\ result.equity_curve = <<>>
    /\ result.final_equity = R(cfg.initial_capital)

\* ------------------------------------------------------------------------
\* Helpers of the properties of calculate_metrics
\* ------------------------------------------------------------------------
\* calculate_metrics has returned a PerformanceMetrics.
MetricsReturned ==
    fn = "calculate_metrics" /\ pc = "return" /\ out.error = None

Bars(ev) == 1..Len(ev)

\* The highest curve value among the bars 1..k.
Peak(ev, k) ==
    CHOOSE m \in {ev[j] : j \in 1..k} : \A j \in 1..k : RLe(ev[j], m)

\* Running maximum up to bar k minus the curve value at bar k.
DrawdownAt(ev, k) == RSub(Peak(ev, k), ev[k])

NonDecreasing(ev) ==
    \A k \in Bars(ev) : k > 1 => RLe(ev[k - 1], ev[k])

\* ------------------------------------------------------------------------
\* C23  Max drawdown (absolute): the max_drawdown returned is the maximum
\* over all bars i of (running maximum of the equity curve up to i minus
\* the curve value at i): it is at least every bar's drawdown and equal to
\* the drawdown of some bar; it is always >= 0 and it is exactly 0 for a
\* non-decreasing equity curve.
\* ------------------------------------------------------------------------
C23_MaxDrawdown ==
    MetricsReturned =>
        LET ev == arg.equity_curve IN
        /\ \A k \in Bars(ev) : RLe(DrawdownAt(ev, k), out.max_drawdown)
        /\ ev # <<>> =>
              \E k \in Bars(ev) : out.max_drawdown = DrawdownAt(ev, k)
        /\ RLe(Zero, out.max_drawdown) /\ out.max_drawdown # NaN
        /\ NonDecreasing(ev) => out.max_drawdown = Zero

\* ------------------------------------------------------------------------
\* C24  Max drawdown (percentage): for every equity curve with positive
\* values (and at least one bar), max_drawdown_pct is the percentage form
\* of the max_drawdown reported: max_drawdown divided by the running
\* maximum at a bar where that max drawdown occurs, times 100.
\* ------------------------------------------------------------------------
PositiveCurve(ev) == ev # <<>> /\ \A k \in Bars(ev) : RGt(ev[k], Zero)

C24_MaxDrawdownPct ==
    (MetricsReturned /\ PositiveCurve(arg.equity_curve)) =>
        LET ev == arg.equity_curve IN
        \E k \in Bars(ev) :
            /\ DrawdownAt(ev, k) = out.max_drawdown
            /\ out.max_drawdown_pct =
                  RMul(RDiv(out.max_drawdown, Peak(ev, k)), R(100))

\* ------------------------------------------------------------------------
\* C25  Win/loss classification: for every non-empty trade list a trade
\* counts as winning iff pnl - commission > 0 and as losing otherwise (a
\* net PnL of exactly 0 is a loss), so winning_trades + losing_trades =
\* total_trades, and win_rate = winning_trades / total_trades x 100.
\* ------------------------------------------------------------------------
NetPnl(t) == RSub(t.pnl, t.commission)
Wins(ts) == {k \in 1..Len(ts) : RGt(NetPnl(ts[k]), Zero)}
Losses(ts) == {k \in 1..Len(ts) : RLe(NetPnl(ts[k]), Zero)}

C25_WinLoss ==
    (MetricsReturned /\ arg.trades # <<>>) =>
        /\ out.total_trades = Len(arg.trades)
        /\ out.winning_trades = Cardinality(Wins(arg.trades))
        /\ out.losing_trades = Cardinality(Losses(arg.trades))
        /\ out.winning_trades + out.losing_trades = out.total_trades
        /\ out.win_rate =
              RDiv(R(100 * out.winning_trades), R(out.total_trades))

\* Witness of C25: of two trades one has a positive net PnL and the other
\* a positive pnl eaten up by its commission (net PnL exactly 0): one win,
\* one loss, win rate 50.
C25_Witness ==
    /\ MetricsReturned
    /\ Len(arg.trades) = 2
    /\ RGt(NetPnl(arg.trades[1]), Zero)
    /\ NetPnl(arg.trades[2]) = Zero
    /\ RGt(arg.trades[2].pnl, Zero)
    /\ out.winning_trades = 1
    /\ out.losing_trades = 1
    /\ out.win_rate = R(50)

\* ------------------------------------------------------------------------
\* C26  Profit factor: profit_factor is the sum of the winning net PnLs
\* divided by the absolute sum of the losing net PnLs; it is +infinity
\* when gross loss is zero and gross profit is positive, and it is 0 when
\* there are zero trades or when gross profit and gross loss are both
\* zero.
\* ------------------------------------------------------------------------
RECURSIVE SumOver(_, _)
SumOver(ts, ks) ==
    IF ks = {} THEN Zero
    ELSE LET k == CHOOSE x \in ks : TRUE
         IN  RAdd(NetPnl(ts[k]), SumOver(ts, ks \ {k}))

GrossProfit(ts) == SumOver(ts, Wins(ts))
GrossLoss(ts) == RAbs(SumOver(ts, Losses(ts)))

C26_ProfitFactor ==
    MetricsReturned =>
        LET gp == GrossProfit(arg.trades)
            gl == GrossLoss(arg.trades)
        IN  out.profit_factor =
              (IF arg.trades = <<>> THEN Zero
               ELSE IF RGt(gl, Zero) THEN RDiv(gp, gl)
               ELSE IF RGt(gp, Zero) THEN Inf
               ELSE Zero)

\* calculate_metrics has returned or raised.
MetricsDone == fn = "calculate_metrics" /\ pc = "return"

\* ------------------------------------------------------------------------
\* C27  Zero-trade result: for a BacktestResult with an empty trade list
\* calculate_metrics does not raise and returns total_trades =
\* winning_trades = losing_trades = 0 and win_rate = profit_factor =
\* profit_to_drawdown = 0.0, while net profit is final equity minus
\* initial capital and max drawdown is the largest drawdown of the equity
\* curve.
\* ------------------------------------------------------------------------
C27_ZeroTrades ==
    (MetricsDone /\ arg.trades = <<>>) =>
        LET ev == arg.equity_curve IN
        /\ out.error = None
        /\ out.total_trades = 0
        /\ out.winning_trades = 0
        /\ out.losing_trades = 0
        /\ out.win_rate = Zero
        /\ out.profit_factor = Zero
        /\ out.profit_to_drawdown = Zero
        /\ out.net_profit =
              RSub(arg.final_equity, R(arg.config.initial_capital))
        /\ ev # <<>> =>
              /\ \A k \in Bars(ev) : RLe(DrawdownAt(ev, k), out.max_drawdown)
              /\ \E k \in Bars(ev) : out.max_drawdown = DrawdownAt(ev, k)

StrictlyIncreasing(rows) ==
    \A k \in 1..Len(rows) : k > 1 => rows[k - 1].time < rows[k].time

C29_TimestampsValidated ==
    (fn = "validate_ohlcv" /\ pc = "return"
        /\ ~StrictlyIncreasing(arg.rows)) => out # <<>>

\* ------------------------------------------------------------------------
\* C30  run_optimization returns exactly the variants whose average
\* net-profit percentage is strictly greater than min_net_profit_pct and
\* whose average max-drawdown percentage is at most max_drawdown_pct, each
\* once, ordered so that avg_profit_to_drawdown is non-increasing along
\* the returned list; the list is empty when no variant passes.
\* ------------------------------------------------------------------------
Mean(per_asset, f) ==
    IF Len(per_asset) = 0 THEN Zero
    ELSE FDiv(FSum([k \in 1..Len(per_asset) |-> per_asset[k][f]]),
              R(Len(per_asset)))

\* The variants of the call that pass the filter, by their number.
Passing ==
    {k \in 1..Len(arg.per_assets) :
        LET profit == Mean(arg.per_assets[k], "net_profit_pct")
            dd == Mean(arg.per_assets[k], "max_drawdown_pct")
        IN  /\ profit # NaN /\ dd # NaN
            /\ RLt(arg.optimizer_config.min_net_profit_pct, profit)
            /\ ~RLt(arg.optimizer_config.max_drawdown_pct, dd)}

OptimizationReturned == fn = "run_optimization" /\ pc = "return"

C30_FilteredAndRanked ==
    OptimizationReturned =>
        /\ {out[j].params : j \in 1..Len(out)} = Passing
        /\ Len(out) = Cardinality(Passing)
        /\ \A j \in 1..Len(out) :
              /\ out[j].per_asset = arg.per_assets[out[j].params]
              /\ out[j].avg_profit_to_drawdown =
                    Mean(out[j].per_asset, "profit_to_drawdown")
              /\ j > 1 => ~RLt(out[j - 1].avg_profit_to_drawdown,
                               out[j].avg_profit_to_drawdown)
        /\ Passing = {} => out = <<>>

\* Witness of C30: of three variants the first passes with the lower
\* ratio, the second only breaks even and is dropped, the third passes with
\* the higher ratio and is returned first.
C30_Witness ==
    /\ OptimizationReturned
    /\ Len(arg.per_assets) = 3
    /\ Passing = {1, 3}
    /\ Mean(arg.per_assets[2], "net_profit_pct") = Zero
    /\ Mean(arg.per_assets[2], "max_drawdown_pct") = Zero
    /\ Len(out) = 2
    /\ out[1].params = 3
    /\ out[2].params = 1
    /\ RLt(out[2].avg_profit_to_drawdown, out[1].avg_profit_to_drawdown)

\* ------------------------------------------------------------------------
\* C31  generate_variants returns the full Cartesian product of the
\* parameter space when it has at most max_variants combinations, and
\* otherwise exactly max_variants combinations, each a member of the full
\* grid carrying every parameter key, with no combination returned twice;
\* an empty parameter space yields the single empty variant.
\* ------------------------------------------------------------------------
\* The full grid: every assignment of one of its values to each parameter.
Grid(space) ==
    {g \in [1..Len(space) -> 1..MaxValues] :
        \A k \in 1..Len(space) : g[k] <= space[k]}

VariantsDone == fn = "generate_variants" /\ pc = "return"

C31_Variants ==
    VariantsDone =>
        LET grid == Grid(arg.space)
            vs == out.variants
        IN  /\ out.error = None
            /\ \A j \in 1..Len(vs) :
                  /\ vs[j] \in grid
                  /\ DOMAIN vs[j] = 1..Len(arg.space)
            /\ \A j, k \in 1..Len(vs) : j # k => vs[j] # vs[k]
            /\ arg.space # <<>> =>
                  Len(vs) = IF Cardinality(grid) <= arg.max_variants
                            THEN Cardinality(grid)
                            ELSE arg.max_variants
            /\ arg.space = <<>> => vs = <<<<>>>>

\* ------------------------------------------------------------------------
\* C32  _compute_chunks partitions the inclusive date range [start_date,
\* end_date] for every chunk_days >= 1 and start <= end: the first chunk
\* starts at start_date, the last ends at end_date, each chunk begins the
\* day after the previous one ends, every chunk spans at most chunk_days
\* days and every chunk but the last exactly chunk_days days; the loop
\* terminates.
\* ------------------------------------------------------------------------
\* The number of the day of a date string, counted from FirstDay.
DayNumber(s) ==
    CHOOSE k \in 0..(2 * MaxDays) : Strftime(AddDays(FirstDay, k)) = s

\* The number of days of a chunk, both ends included.
Span(chunk) == DayNumber(chunk[2]) - DayNumber(chunk[1]) + 1

ChunksCalled ==
    /\ fn = "_compute_chunks"
    /\ arg.chunk_days >= 1
    /\ DayNumber(arg.start_date) <= DayNumber(arg.end_date)

C32_Chunks ==
    /\ [](ChunksCalled /\ pc = "return" =>
            /\ out # <<>>
            /\ out[1][1] = arg.start_date
            /\ out[Len(out)][2] = arg.end_date
            /\ \A k \in 1..Len(out) :
                  /\ Span(out[k]) >= 1
                  /\ Span(out[k]) <= arg.chunk_days
                  /\ k < Len(out) => Span(out[k]) = arg.chunk_days
                  /\ k > 1 => DayNumber(out[k][1]) =
                                 DayNumber(out[k - 1][2]) + 1)
    /\ (ChunksCalled /\ pc = "call") ~> (ChunksCalled /\ pc = "return")

\* Witness of C32: a range of five days or more cut into chunks of two
\* days, the last chunk being a single day.
C32_Witness ==
    /\ ChunksCalled
    /\ pc = "return"
    /\ arg.chunk_days = 2
    /\ Len(out) >= 3
    /\ Span(out[Len(out)]) = 1
    /\ out[1][1] = <<2024, 2, 27>>
    /\ out[2][2][2] = 3

\* ------------------------------------------------------------------------
\* C33  fetch_historical requests the chunks in chronological order and
\* fails atomically: at the first chunk whose response status is not "ok"
\* it raises an error, issues no further request and returns no partial
\* data; if every chunk succeeds but no candle was returned it raises a
\* 'no data' error; otherwise it returns the candles of all chunks with
\* duplicate timestamps collapsed to their first occurrence.
\* ------------------------------------------------------------------------
FetchDone == fn = "fetch_historical" /\ pc = "return"

\* The numbers of the requests answered with a status other than "ok".
Failed == {k \in 1..Len(frame.responses) : frame.responses[k].s # "ok"}

\* The candles received, in the order of the requests.
RECURSIVE Received(_)
Received(responses) ==
    IF responses = <<>> THEN <<>>
    ELSE Received(SubSeq(responses, 1, Len(responses) - 1))
         \o responses[Len(responses)].candles

\* The first candle of cs that has the timestamp t.
FirstAt(cs, t) ==
    cs[CHOOSE k \in 1..Len(cs) :
          cs[k][1] = t /\ \A j \in 1..(k - 1) : cs[j][1] # t]

C34_PendingLegal ==
    /\ [](pc = "loop" =>
             /\ pending_signal \in Entries => position = Zero
             /\ pending_signal = "long_exit" => RGt(position, Zero)
             /\ pending_signal = "short_exit" => RLt(position, Zero))
    /\ [](pc \in {"mark", "signal"} => pending_signal = None)
    /\ [][ (pc = "loop" /\ i < n) =>
              /\ pending_signal' = None
              /\ pending_signal \in Entries =>
                    /\ entry_time' = times(i + 1)
                    /\ entry_price' = R(bar'.open)
                    /\ qty' = EntryQty(equity, R(bar'.open))
              /\ pending_signal \in Exits =>
                    /\ Len(trades') = Len(trades) + 1
                    /\ position' = Zero
              /\ pending_signal = None => UNCHANGED ledger
         ]_vars

\* Witness of C34: a short position is open on a bar that is not the last
\* and that flags both exits and an entry; the short exit is pending.
C34_Witness ==
    /\ pc = "loop"
    /\ i < n
    /\ RLt(position, Zero)
    /\ pending_signal = "short_exit"
    /\ bar.long_exit
    /\ bar.long_entry

\* ------------------------------------------------------------------------
\* C35  Trades are in chronological order and do not overlap: no trade
\* exits before it was entered, and the entry bar of every trade but the
\* first is strictly later than the exit bar of the trade before it.
\* ------------------------------------------------------------------------
C35_TradesOrdered ==
    /\ \A k \in 1..Len(trades) :
          trades[k].entry_time <= trades[k].exit_time
    /\ \A k \in 1..(Len(trades) - 1) :
          trades[k + 1].entry_time > trades[k].exit_time

\* Witness of C35: a run returned two trades, the second entered on the
\* bar after the exit of the first: the earliest re-entry there is.
C35_Witness ==
    /\ pc = "done"
    /\ Len(result.trades) = 2
    /\ result.trades[1].entry_time < result.trades[1].exit_time
    /\ result.trades[2].entry_time = result.trades[1].exit_time + 1

\* ------------------------------------------------------------------------
\* C36  A signal observed on the final bar is never filled.  Evaluating
\* the flags of the last bar changes nothing but the pending slot, and no
\* execution step follows it: the next step is the forced close, which
\* leaves the slot as it is.  With an entry pending (the position is flat)
\* the forced close changes neither the trade list nor realized equity,
\* the position or the equity curve; with an exit pending the position it
\* refers to is closed by the forced close, in a trade whose exit price is
\* the close of the last bar and whose exit time is the last timestamp.
\* The run then returns the trades and the equity as they are.
\* ------------------------------------------------------------------------
C36_LastBarSignal ==
    /\ [][ /\ (pc = "signal" /\ i = n) =>
                 UNCHANGED <<trades, equity, position, entry_price,
                             entry_time, equity_values>>
           /\ AtForcedClose =>
                 /\ pc' = "ret"
                 /\ pending_signal' = pending_signal
                 /\ pending_signal \in Entries =>
                       /\ Flag(bar, pending_signal)
                       /\ position = Zero
                       /\ UNCHANGED <<trades, equity, position, entry_price,
                                      entry_time, equity_values>>
                 /\ pending_signal \in Exits =>
                       /\ Flag(bar, pending_signal)
                       /\ Len(trades') = Len(trades) + 1
                       /\ LastTrade(trades').exit_price = R(bar.close)
                       /\ LastTrade(trades').exit_time = times(n)
                       /\ LastTrade(trades').entry_time = entry_time
           /\ pc = "ret" =>
                 /\ UNCHANGED <<trades, equity, position>>
                 /\ result'.trades = trades
                 /\ result'.final_equity = equity
         ]_vars
    /\ []((pc = "done" /\ n >= 1 /\ pending_signal \in Entries) =>
             /\ \A k \in 1..Len(result.trades) :
                   result.trades[k].entry_time < times(n)
             /\ result.final_equity = result.equity_curve[n])

\* Witness of C36: a run returned with the exit flagged on its last bar
\* still pending; the position was entered on an earlier bar and closed at
\* the last close, which differs from the last open.
C36_Witness ==
    /\ pc = "done"
    /\ pending_signal \in Exits
    /\ Flag(bar, pending_signal)
    /\ bar.close # bar.open
    /\ Len(result.trades) = 1
    /\ LastTrade(result.trades).entry_time < times(n)
    /\ LastTrade(result.trades).exit_time = times(n)
    /\ LastTrade(result.trades).exit_price = R(bar.close)

\* ------------------------------------------------------------------------
\* C37  Same-bar round trip only by forced close.  An entry signal pending
\* from the second-to-last bar fills at the open of the last bar and the
\* position it opens is force-closed at the close of that bar: the run
\* returns, as its last trade, one with entry_time = exit_time = the last
\* timestamp, entered at the last open and closed at the last close.  No
\* other trade has equal entry and exit times.
\* ------------------------------------------------------------------------
C37_SameBarRoundTrip ==
    /\ [][ (pc = "loop" /\ i = n - 1 /\ pending_signal \in Entries) =>
              /\ entry_time' = times(n)
              /\ entry_price' = R(bar'.open)
              /\ position' # Zero
         ]_vars
    /\ []((pc = "done" /\ entry_time = times(n)) =>
             /\ result.trades # <<>>
             /\ LastTrade(result.trades).entry_time = times(n)
             /\ LastTrade(result.trades).exit_time = times(n)
             /\ LastTrade(result.trades).entry_price = R(bar.open)
             /\ LastTrade(result.trades).exit_price = R(bar.close))
    /\ [](\A k \in 1..Len(trades) :
             trades[k].entry_time = trades[k].exit_time =>
                /\ pc \in {"ret", "done"}
                /\ k = Len(trades)
                /\ trades[k].exit_time = times(n)
                /\ trades[k].exit_price = R(bar.close))

\* ------------------------------------------------------------------------
\* C38  Entry tie-break.  When the position is flat and the bar flags both
\* long_entry and short_entry, the pending action is the long entry; the
\* execution step of the next bar opens a long position (a strictly
\* positive position labelled "long") and no short one.
\* ------------------------------------------------------------------------
C38_EntryTieBreak ==
    [][ /\ (pc = "signal" /\ position = Zero
            /\ bar'.long_entry /\ bar'.short_entry) =>
              pending_signal' = "long_entry"
        /\ (pc = "loop" /\ i < n /\ i >= 1 /\ position = Zero
            /\ bar.long_entry /\ bar.short_entry) =>
              /\ pending_signal = "long_entry"
              /\ RGt(position', Zero)
              /\ direction' = "long"
              /\ entry_price' = R(bar'.open)
      ]_vars

\* ------------------------------------------------------------------------
\* C39  An exit signal for the opposite direction never closes a
\* position.  long_exit flagged (without short_exit) on a bar on which the
\* position is negative, or short_exit flagged (without long_exit) on a bar
\* on which it is positive, leaves the pending slot empty, whatever the
\* entry flags are, and changes nothing of the ledger; the execution step
\* of the following bar then leaves position, realized equity and the
\* trade list unchanged.
\* ------------------------------------------------------------------------
OppositeExit(pos, b) ==
    \/ RLt(pos, Zero) /\ b.long_exit /\ ~b.short_exit
    \/ RGt(pos, Zero) /\ b.short_exit /\ ~b.long_exit

C39_OppositeExit ==
    [][ /\ (pc = "signal" /\ OppositeExit(position, bar')) =>
              /\ pending_signal' = None
              /\ UNCHANGED <<position, equity, trades, entry_price,
                             entry_time>>
        /\ (pc = "loop" /\ i < n /\ i >= 1 /\ OppositeExit(position, bar)) =>
              /\ pending_signal = None
              /\ UNCHANGED <<position, equity, trades, entry_price,
                             entry_time>>
      ]_vars

\* Witness of C39: a short position entered on an earlier bar is open on a
\* bar, not the last, that flags long_exit and long_entry but not
\* short_exit; nothing is pending and no trade has been recorded.
C39_Witness ==
    /\ pc = "loop"
    /\ i < n
    /\ RLt(position, Zero)
    /\ entry_time < times(i)
    /\ bar.long_exit /\ bar.long_entry /\ ~bar.short_exit
    /\ pending_signal = None
    /\ trades = <<>>

====
